---- MODULE Spec2Model ----
(***************************************************************************)
(* Model of the Sparta provisioning workflow (provision.go): the step      *)
(* chain driven by Provision, the concurrent upload tasks of the Upload    *)
(* step and the concurrent compensations of workflowContext.rollback.      *)
(***************************************************************************)
EXTENDS Integers, Sequences, FiniteSets, TLC

\* ------------------------------------------------------------------ bounds
MaxLambdas == 2

MaxCustomResources == 1

MaxTempNames == 2

MaxRuns == 2

MaxNameLen == 2

MaxCalls == 3

FnNames == {"f1", "f2"}
\* "" is the Go zero value: the function then carries an inline RoleDefinition
RoleNames == {"", "r1", "r2"}

\* The IAMRoleDefinition objects a declaration can point to; 0 is nil.
RoleDefs == {1, 2}

\* customResourceInfo.userFunctionName
CustomResourceNames == {"c1", "c2"}

\* ------------------------------------------------------------------ state
VARIABLES
    noop,               \* workflowContext.noop
    lambdaAWSInfos,     \* workflowContext.lambdaAWSInfos
    api,                \* workflowContext.api != nil
    s3Site,             \* workflowContext.s3SiteContext.s3Site != nil
    workflowHooks,      \* the hooks set in workflowContext.workflowHooks
    pc,                 \* position of the control thread inside Provision
    invoked,            \* the workflow steps invoked so far, in order
    calls,              \* the external calls issued so far, in order
    lambdaIAMRoleNameMap, \* workflowContext.lambdaIAMRoleNameMap: key -> reference
    uploadErrors,       \* createUploadStep's local uploadErrors slice
    rollbackFunctions,  \* workflowContext.rollbackFunctions
    tasks,              \* the two upload goroutines of createUploadStep
    s3Objects,          \* keys present in the S3 bucket
    rollbackCalls,      \* number of calls of ctx.rollback()
    cleanups,           \* per rollback goroutine: state and invocation count
    hookTask,           \* the rollback-hook goroutine
    stepErr,            \* errors produced by the failing operations of a step
    next,               \* Provision's local next: the step the last step returned
    err,                \* Provision's local err: the error the last step returned
    retErr,             \* the error Provision returned (<<>> is nil)
    tempNames,          \* the random suffixes ioutil.TempFile can draw
    cfTemplate,         \* workflowContext.cfTemplate: logical name -> resource
    cachedLogicalName,  \* IAMRoleDefinition.cachedLogicalName per definition
    packagePath,        \* the packagePath createUploadStep was created with
    s3LambdaZipKey,     \* workflowContext.s3LambdaZipKey
    s3SiteLambdaZipKey, \* workflowContext.s3SiteContext.s3SiteLambdaZipKey
    run,                \* number of the current call of Provision
    firstTemplate,      \* the cfTemplate the first call of Provision ended with
    declaration,        \* the object a function observed on its own is called on
    returned,           \* what the calls of that function returned, in order
    eventSourceMappings, \* per declaration: its EventSourceMappings
    decorators,         \* per declaration: the resources each decorator adds
    apiResources,       \* the resources the gateway's own declarations export
    serviceResources,   \* the resources the ServiceDecorator hook adds
    workflowHookLists,  \* the list-valued hooks of WorkflowHooks that are set
    jsHandlerNames,     \* jsHandlerName() of every function and custom resource
    errRemove,          \* the error os.Remove returns for the binary
    bucketLifecycle,    \* the lifecycle configuration of the S3 bucket
    errSiteExport,      \* the error S3Site.export returns
    lambdaArchive,      \* the entries written to the ZIP archive, in order
    merges,             \* the template merges made so far: source and target
    overwritten         \* logical names whose resource AddResource replaced

vars == <<noop, lambdaAWSInfos, api, s3Site, workflowHooks, pc, invoked, calls,
          lambdaIAMRoleNameMap, uploadErrors, rollbackFunctions, tasks,
          s3Objects, rollbackCalls, cleanups, hookTask, stepErr, next, err,
          retErr, tempNames, cfTemplate, cachedLogicalName, packagePath,
          s3LambdaZipKey, s3SiteLambdaZipKey, run, firstTemplate, declaration,
          returned, eventSourceMappings, decorators, apiResources,
          serviceResources, workflowHookLists, jsHandlerNames, errRemove,
          bucketLifecycle, errSiteExport, lambdaArchive, merges, overwritten>>

inputs == <<noop, lambdaAWSInfos, api, s3Site, workflowHooks, tempNames,
            eventSourceMappings, decorators, apiResources, serviceResources,
            workflowHookLists, jsHandlerNames, errRemove, bucketLifecycle,
            errSiteExport>>

templateVars == <<cfTemplate, cachedLogicalName>>

keyVars == <<packagePath, s3LambdaZipKey, s3SiteLambdaZipKey>>

runVars == <<run, firstTemplate>>

nameVars == <<declaration, returned>>

buildVars == <<lambdaArchive, merges, overwritten>>

\* ------------------------------------------------------------------ helpers
Range(s) == {s[i] : i \in 1..Len(s)}

SeqsUpTo(S, n) == UNION {[1..k -> S] : k \in 0..n}

\* A Go error is modelled by the parts of its message; nil is <<>>.
NoErr == <<>>

customResourceInfo ==
    [userFunctionName : CustomResourceNames, roleName : RoleNames,
     roleDefinition : {0} \cup RoleDefs]

LambdaAWSInfo ==
    [name : FnNames, validSig : BOOLEAN, RoleName : RoleNames,
     RoleDefinition : {0} \cup RoleDefs,
     customResources : SeqsUpTo(customResourceInfo, MaxCustomResources)]

\* The declarations HandleAWSLambda makes from a role name or, for "", with
\* an inline definition, and without custom resources.
HandleAWSLambda ==
    {[name |-> n, validSig |-> v, RoleName |-> r,
      RoleDefinition |-> IF r = "" THEN 1 ELSE 0, customResources |-> <<>>] :
        n \in FnNames, v \in BOOLEAN, r \in RoleNames}

IdleTask == [pc |-> "idle", e |-> <<>>, tmp |-> <<>>]

IdleHook == [pc |-> "idle", count |-> 0]

\* The declaration of a run in which lambdaFunctionName() is not observed.
NoDeclaration ==
    [userSuppliedFunctionName |-> <<>>, Name |-> <<>>,
     cachedLambdaFunctionName |-> <<>>]

\* The single-valued hooks of WorkflowHooks that provision.go calls.
AllHooks ==
    {"PreBuild", "PostBuild", "Archive", "PreMarshall", "ServiceDecorator",
     "PostMarshall", "Rollback"}

\* The hook configurations explored: none, only a rollback hook, every hook
\* but the rollback hook, every hook.
HookConfigs == {{}, {"Rollback"}, AllHooks \ {"Rollback"}, AllHooks}

\* The S3 keys of the objects the workflow creates.
ZipKey == "zip"
SiteKey == "site"
TemplateKey == "template"

\* The state a call of Provision starts in, whatever its inputs.
Start ==
    /\ pc = "validate"
    /\ invoked = <<>>
    /\ calls = <<>>
    /\ lambdaIAMRoleNameMap = <<>>
    /\ uploadErrors = <<>>
    /\ rollbackFunctions = <<>>
    /\ tasks = [t \in {"primary", "site"} |-> IdleTask]
    /\ s3Objects = {}
    /\ rollbackCalls = 0
    /\ cleanups = <<>>
    /\ hookTask = IdleHook
    /\ stepErr = {}
    /\ next = "nil"
    /\ err = NoErr
    /\ retErr = NoErr
    /\ cfTemplate = <<>>
    /\ cachedLogicalName = [d \in RoleDefs |-> <<>>]
    /\ packagePath = <<>>
    /\ s3LambdaZipKey = <<>>
    /\ s3SiteLambdaZipKey = <<>>
    /\ run = 1
    /\ firstTemplate = <<>>
    /\ lambdaArchive = <<>>
    /\ merges = <<>>
    /\ overwritten = {}

\* Declarations without event source mappings and decorators, a gateway
\* without resources of its own, a service decorator that adds nothing, no
\* list-valued hook, a handler name of its own for every function and custom
\* resource, a binary that os.Remove deletes, a bucket with a lifecycle
\* configuration and a site export that returns no error.
Plain ==
    /\ eventSourceMappings = [i \in 1..Len(lambdaAWSInfos) |-> <<>>]
    /\ decorators = [i \in 1..Len(lambdaAWSInfos) |-> <<>>]
    /\ apiResources = <<>>
    /\ serviceResources = <<>>
    /\ workflowHookLists = {}
    /\ jsHandlerNames = [n \in FnNames \cup CustomResourceNames |-> n]
    /\ errRemove = NoErr
    /\ bucketLifecycle = "Enabled"
    /\ errSiteExport = NoErr

\* No function is observed on its own.
Unobserved ==
    /\ declaration = NoDeclaration
    /\ returned = <<>>

Init ==
    /\ noop \in BOOLEAN
    /\ lambdaAWSInfos \in SeqsUpTo(HandleAWSLambda, MaxLambdas)
    /\ api \in BOOLEAN
    /\ s3Site \in BOOLEAN
    /\ workflowHooks \in HookConfigs
    /\ tempNames = {1}
    /\ Plain
    /\ Start
    /\ Unobserved

\* ------------------------------------------------------------------ Provision
\* The error a failing operation op produces.
OpErr(op) == op \o <<"failed">>

\* All orderings of a finite set (Go map iteration order is unspecified).
RECURSIVE Orderings(_)
Orderings(S) ==
    IF S = {} THEN {<<>>}
    ELSE UNION {{<<x>> \o o : o \in Orderings(S \ {x})} : x \in S}

RECURSIVE Flatten(_)
Flatten(ss) == IF ss = <<>> THEN <<>> ELSE Head(ss) \o Flatten(Tail(ss))

\* validateSpartaPreconditions, step 0: one message per invalid signature.
SignatureErrors(infos) ==
    Flatten([i \in 1..Len(infos) |->
                IF infos[i].validSig THEN <<>>
                ELSE <<"Invalid lambda signature: ", infos[i].name>>])

\* validateSpartaPreconditions, step 1: collisionMemo, name -> count.
collisionMemo(infos) ==
    LET keys == Flatten([i \in 1..Len(infos) |->
                    <<infos[i].name>> \o
                    [j \in 1..Len(infos[i].customResources) |->
                        infos[i].customResources[j].userFunctionName]])
    IN  [n \in Range(keys) |-> Cardinality({k \in 1..Len(keys) : keys[k] = n})]

\* Variant: the message does not name the duplicate.
DuplicateErrors_noName(order) ==
    Flatten([i \in 1..Len(order) |-> <<"Multiple definitions of lambda: ">>])

\* Variant: a name counts as duplicated only from the third definition on.
DuplicateNames_offByOne(infos) ==
    {n \in DOMAIN collisionMemo(infos) : collisionMemo(infos)[n] > 2}

DuplicateNames(infos) ==
    {n \in DOMAIN collisionMemo(infos) : collisionMemo(infos)[n] > 1}

DuplicateErrors(order) ==
    Flatten([i \in 1..Len(order) |->
                <<"Multiple definitions of lambda: ", order[i]>>])

\* The errors validateSpartaPreconditions can return for infos (NoErr: none).
validateSpartaPreconditions(infos, sysinfoOK) ==
    LET texts == {SignatureErrors(infos) \o DuplicateErrors(o) :
                     o \in Orderings(DuplicateNames(infos))}
    IN  IF \E t \in texts : t # <<>> THEN texts
        ELSE IF ~sysinfoOK THEN {<<"Please run go get github.com/zcalusic/sysinfo">>}
        ELSE {NoErr}

\* Provision up to the start of the workflow loop: returns a precondition
\* error without entering a step, or starts the chain at verifyIAMRoles.
Validate ==
    /\ pc = "validate"
    /\ \E sysinfoOK \in BOOLEAN :
       \E e \in validateSpartaPreconditions(lambdaAWSInfos, sysinfoOK) :
          IF e # NoErr
          THEN /\ pc' = "done"
               /\ retErr' = e
          ELSE IF Len(lambdaAWSInfos) <= 0
          THEN /\ pc' = "done"
               /\ retErr' = <<"No lambda functions provided to Sparta.Provision()">>
          ELSE /\ pc' = "verifyIAMRoles"
               /\ retErr' = retErr
    /\ UNCHANGED <<inputs, invoked, calls, lambdaIAMRoleNameMap, uploadErrors,
                   rollbackFunctions, tasks, s3Objects, rollbackCalls,
                   cleanups, hookTask, stepErr, next, err>>
    /\ UNCHANGED <<templateVars, keyVars, runVars, buildVars, nameVars>>

\* The loop body of Provision after a step returned (next, stepError):
\* an error triggers rollback, (nil, nil) ends the chain, otherwise go on.
\* Variant: the error branch does not return, so the loop goes on as if the
\* step had succeeded.
StepReturns_noHalt(nextStep, stepError) ==
    /\ next' = nextStep
    /\ err' = stepError
    /\ IF nextStep = "nil"
       THEN /\ pc' = "done"
            /\ retErr' = NoErr
       ELSE /\ pc' = nextStep
            /\ retErr' = retErr

\* Variant: rollback() is deferred, so it also runs when the chain ends
\* without error.
StepReturns_deferredRollback(nextStep, stepError) ==
    /\ next' = nextStep
    /\ err' = stepError
    /\ IF stepError # NoErr \/ nextStep = "nil"
       THEN /\ pc' = "rollback"
            /\ retErr' = retErr
       ELSE /\ pc' = nextStep
            /\ retErr' = retErr

StepReturns(nextStep, stepError) ==
    /\ next' = nextStep
    /\ err' = stepError
    /\ IF stepError # NoErr
       THEN /\ pc' = "rollback"
            /\ retErr' = retErr
       ELSE IF nextStep = "nil"
       THEN /\ pc' = "done"
            /\ retErr' = NoErr
       ELSE /\ pc' = nextStep
            /\ retErr' = retErr

\* What a step returns: (nil, e) when it failed with e, (nextStep, nil) otherwise.
Return(nextStep, e) == StepReturns(IF e # NoErr THEN "nil" ELSE nextStep, e)

\* The steps the step functions return on success.
AfterVerifyIAMRoles == "package"
\* Variant: the Package step returns the AssembleGraph step.
AfterPackage_skipUpload == "ensureCloudFormationStack"

AfterPackage == "upload"
AfterUpload == "ensureCloudFormationStack"

\* ------------------------------------------------------------------ VerifyRoles
\* Variant: the role names of the custom resources are not collected.
allRoleNames_noCustom(infos) ==
    Flatten([i \in 1..Len(infos) |->
                IF infos[i].RoleName # "" THEN <<infos[i].RoleName>> ELSE <<>>])

\* verifyIAMRoles, first loop: the role-name literals of the functions and of
\* their custom resources, in declaration order.
allRoleNames(infos) ==
    Flatten([i \in 1..Len(infos) |->
                (IF infos[i].RoleName # "" THEN <<infos[i].RoleName>> ELSE <<>>)
                \o Flatten([j \in 1..Len(infos[i].customResources) |->
                       IF infos[i].customResources[j].roleName # ""
                       THEN <<infos[i].customResources[j].roleName>>
                       ELSE <<>>])])

\* CloudFormationResourceName("IAMRole", serviceName, targetLambdaFnName)
RoleLogicalName(fnName) == <<"IAMRole", fnName>>

\* Variant: the logical name is derived anew on every call.
logicalName_noCache(cache, d, fnName) ==
    [name |-> RoleLogicalName(fnName),
     cache |-> [cache EXCEPT ![d] = RoleLogicalName(fnName)]]

\* IAMRoleDefinition.logicalName on definition d: the name it returns and the
\* cachedLogicalName fields after the call.
logicalName(cache, d, fnName) ==
    LET c == IF cache[d] = <<>>
             THEN [cache EXCEPT ![d] = RoleLogicalName(fnName)] ELSE cache
    IN  [name |-> c[d], cache |-> c]

\* IAMRoleDefinition.toResource
RoleResource ==
    [Type |-> "AWS::IAM::Role", Properties |-> <<>>, DependsOn |-> <<>>,
     Metadata |-> <<>>]

\* verifyIAMRoles, first loop, for one inline definition d (0: none): when
\* its logical name is not in the map yet, the role resource is added to the
\* template and the name is bound to GetAtt(logicalName, "Arn").
DeclareRole(st, d, fnName) ==
    IF d = 0 THEN st
    ELSE LET ln == logicalName(st.cache, d, fnName)
         IN  IF ln.name \in DOMAIN st.map
             THEN [st EXCEPT !.cache = ln.cache]
             ELSE [cache |-> ln.cache,
                   map |-> st.map @@
                             (ln.name :> (<<"GetAtt">> \o ln.name \o <<"Arn">>)),
                   template |-> st.template @@ (ln.name :> RoleResource)]

\* verifyIAMRoles, first loop: the inline definitions of the custom resources
\* of one function.
RECURSIVE CustomRoles(_, _)
CustomRoles(crs, st) ==
    IF crs = <<>> THEN st
    ELSE CustomRoles(Tail(crs), DeclareRole(st, Head(crs).roleDefinition,
                                            Head(crs).userFunctionName))

\* verifyIAMRoles, first loop: per function its own inline definition, then
\* those of its custom resources.
RECURSIVE InlineRoles(_, _)
InlineRoles(infos, st) ==
    IF infos = <<>> THEN st
    ELSE InlineRoles(Tail(infos),
                     CustomRoles(Head(infos).customResources,
                                 DeclareRole(st, Head(infos).RoleDefinition,
                                             Head(infos).name)))

\* Variant: every collected name is looked up, cached or not.
NeedsLookup_always(r, map) == TRUE

\* verifyIAMRoles, second loop: a name is looked up when the map does not
\* hold it yet.
NeedsLookup(r, map) == <<r>> \notin DOMAIN map

\* verifyIAMRoles, second loop: GetRole for every name not cached yet; the
\* first name the identity service does not know ends the loop with its error.
RECURSIVE CheckRoles(_, _, _)
CheckRoles(names, map, existing) ==
    IF names = <<>> THEN [map |-> map, lookups |-> <<>>, err |-> NoErr]
    ELSE LET r == Head(names)
         IN  IF ~NeedsLookup(r, map)
             THEN CheckRoles(Tail(names), map, existing)
             ELSE IF r \notin existing
             THEN [map |-> map, lookups |-> <<r>>, err |-> OpErr(<<"GetRole", r>>)]
             ELSE LET rest == CheckRoles(Tail(names),
                                         (<<r>> :> <<"Arn", r>>) @@ map, existing)
                  IN  [rest EXCEPT !.lookups = <<r>> \o @]

\* Variant: the error of GetRole is logged and the step returns
\* createPackageStep() all the same.
verifyIAMRoles_ignoreError ==
    /\ pc = "verifyIAMRoles"
    /\ invoked' = Append(invoked, "VerifyRoles")
    /\ \E existing \in SUBSET (RoleNames \ {""}) :
          LET st  == InlineRoles(lambdaAWSInfos,
                                 [map |-> <<>>, template |-> cfTemplate,
                                  cache |-> cachedLogicalName])
              res == CheckRoles(allRoleNames(lambdaAWSInfos), st.map, existing)
          IN  /\ lambdaIAMRoleNameMap' = res.map
              /\ cfTemplate' = st.template
              /\ cachedLogicalName' = st.cache
              /\ calls' = calls \o [i \in 1..Len(res.lookups) |->
                                       <<"GetRole", res.lookups[i]>>]
              /\ stepErr' = IF res.err # NoErr THEN {res.err} ELSE {}
              /\ Return(AfterVerifyIAMRoles, NoErr)
    /\ UNCHANGED <<inputs, uploadErrors, rollbackFunctions, tasks, s3Objects,
                   rollbackCalls, cleanups, hookTask>>
    /\ UNCHANGED <<keyVars, runVars, buildVars, nameVars>>

\* verifyIAMRoles: both loops, against the roles the identity service knows.
verifyIAMRoles ==
    /\ pc = "verifyIAMRoles"
    /\ invoked' = Append(invoked, "VerifyRoles")
    /\ \E existing \in SUBSET (RoleNames \ {""}) :
          LET st  == InlineRoles(lambdaAWSInfos,
                                 [map |-> <<>>, template |-> cfTemplate,
                                  cache |-> cachedLogicalName])
              res == CheckRoles(allRoleNames(lambdaAWSInfos), st.map, existing)
          IN  /\ lambdaIAMRoleNameMap' = res.map
              /\ cfTemplate' = st.template
              /\ cachedLogicalName' = st.cache
              /\ calls' = calls \o [i \in 1..Len(res.lookups) |->
                                       <<"GetRole", res.lookups[i]>>]
              /\ stepErr' = IF res.err # NoErr THEN {res.err} ELSE {}
              /\ Return(AfterVerifyIAMRoles, res.err)
    /\ UNCHANGED <<inputs, uploadErrors, rollbackFunctions, tasks, s3Objects,
                   rollbackCalls, cleanups, hookTask>>
    /\ UNCHANGED <<keyVars, runVars, buildVars, nameVars>>

\* ------------------------------------------------------------------ Package
\* Variant: the PreBuild hook is called after the compile.
PackageOps_buildFirst ==
    << <<"go generate">>, <<"go build">>, <<"PreBuild">>, <<"PostBuild">>,
       <<"temporaryFile">>, <<"Archive">>, <<"AddToZip">>,
       <<"writeNodeJSShim">>, <<"writeCustomResources">>,
       <<"lambdaArchive.Close">>, <<"tmpFile.Close">> >>

\* The operations of createPackageStep in execution order.
PackageOps ==
    << <<"PreBuild">>, <<"go generate">>, <<"go build">>, <<"PostBuild">>,
       <<"temporaryFile">>, <<"Archive">>, <<"AddToZip">>,
       <<"writeNodeJSShim">>, <<"writeCustomResources">>,
       <<"lambdaArchive.Close">>, <<"tmpFile.Close">> >>

\* A hook is called only when it is set; every other operation always runs.
Present(op) == op[1] \notin AllHooks \/ op[1] \in workflowHooks

\* Operations that return no error, and s3Site.export, whose returned error
\* ensureCloudFormationStack does not look at.
Infallible == {<<"annotateDiscoveryInfo">>, <<"s3Site.export">>}

\* A merge returns an error when, and only when, the merged graphs collide.
Decided(op) == op[1] = "safeMergeTemplates"

\* The points at which a run of ops can fail; Len(ops) + 1 stands for success.
FailPoints(ops) ==
    {k \in 1..Len(ops) :
        Present(ops[k]) /\ ops[k] \notin Infallible /\ ~Decided(ops[k])}
        \cup {Len(ops) + 1}

\* The operations executed when the run fails at k (ops[k] included).
Executed(ops, k) ==
    SelectSeq(SubSeq(ops, 1, IF k <= Len(ops) THEN k ELSE Len(ops)), Present)

IndexOf(seq, x) == CHOOSE i \in 1..Len(seq) : seq[i] = x

\* The error createPackageStep returns when op fails: temporaryFile's error
\* is replaced by a fixed message, every other error is returned as it is.
PackageError(op) ==
    IF op = <<"temporaryFile">> THEN <<"Failed to create temporary file">>
    ELSE OpErr(op)

\* Variant: no deferred function is registered.
PackageDeferred_none(k) == <<>>

\* The deferred os.Remove of the binary is registered after a successful build.
PackageDeferred(k) ==
    IF k > IndexOf(PackageOps, <<"go build">>) THEN << <<"os.Remove", "binary">> >>
    ELSE <<>>

\* workflowContext.serviceName, which is also the S3 key prefix of the uploads
serviceName == "svc"

\* temporaryFile(name): ioutil.TempFile(workingDir, name) creates a file whose
\* name is name followed by a random suffix n.
temporaryFile(name, n) == <<"workingDir", <<name, n>>>>

\* filepath.Base
Base(localPath) == localPath[Len(localPath)]

\* The error createPackageStep returns with e when the deferred os.Remove
\* ended with removeErr: the deferred function logs removeErr as a warning.
Deferred(e, removeErr) == e

\* golangCustomResourceTypes
golangCustomResourceTypes ==
    <<"SESLambdaEventSource", "S3LambdaEventSource", "SNSLambdaEventSource",
      "CloudWatchLogsLambdaEventSource", "ZipToS3Bucket">>

\* Variant: no handler name counts as registered.
Registered_never(entries, id) == FALSE

\* writeNodeJSShim: handlerNames holds id.
Registered(entries, id) ==
    \E i \in 1..Len(entries) : entries[i].exports = id

\* writeNodeJSShim, the loops over the functions and their custom resources:
\* names are the functions, each followed by its custom resources; an entry
\* exports a handler name and forwards to the function's name.
RECURSIVE proxyEntries(_, _)
proxyEntries(entries, names) ==
    IF names = <<>> THEN entries
    ELSE proxyEntries(
             IF Registered(entries, jsHandlerNames[Head(names)]) THEN entries
             ELSE Append(entries, [exports |-> jsHandlerNames[Head(names)],
                                   forwards |-> Head(names)]),
             Tail(names))

\* writeNodeJSShim: the entries of index.js, those of the declarations and
\* one per type of golangCustomResourceTypes.
writeNodeJSShim(infos) ==
    proxyEntries(<<>>,
                 Flatten([i \in 1..Len(infos) |->
                     <<infos[i].name>> \o
                     [j \in 1..Len(infos[i].customResources) |->
                         infos[i].customResources[j].userFunctionName]]))
    \o [i \in 1..Len(golangCustomResourceTypes) |->
           [exports |-> golangCustomResourceTypes[i],
            forwards |-> golangCustomResourceTypes[i]]]

\* The entries a successful operation of createPackageStep writes to the
\* archive.
ZipEntries(op) ==
    IF op = <<"Archive">> THEN << <<"Archive">> >>
    ELSE IF op = <<"AddToZip">> THEN << <<"svc.lambda.amd64">> >>
    ELSE IF op = <<"writeNodeJSShim">>
    THEN << <<"index.js", writeNodeJSShim(lambdaAWSInfos)>> >>
    ELSE IF op = <<"writeCustomResources">>
    THEN << <<"sparta_utils.js">>, <<"golang-constants.json">> >>
    ELSE <<>>

\* createPackageStep; the step it returns on success is
\* createUploadStep(tmpFile.Name()).
createPackageStep ==
    /\ pc = "package"
    /\ invoked' = Append(invoked, "Package")
    /\ \E k \in FailPoints(PackageOps) :
          /\ calls' = calls \o Executed(PackageOps, k) \o PackageDeferred(k)
          /\ lambdaArchive' =
                LET written == Executed(PackageOps, k - 1)
                IN  Flatten([i \in 1..Len(written) |-> ZipEntries(written[i])])
          /\ stepErr' = IF k <= Len(PackageOps)
                        THEN {OpErr(PackageOps[k])} ELSE {}
          /\ IF k <= Len(PackageOps)
             THEN packagePath' = packagePath
             ELSE \E n \in tempNames :
                     packagePath' = temporaryFile("code.zip", n)
          /\ Return(AfterPackage,
                    Deferred(IF k <= Len(PackageOps)
                             THEN PackageError(PackageOps[k]) ELSE NoErr,
                             IF PackageDeferred(k) # <<>> THEN errRemove
                             ELSE NoErr))
    /\ UNCHANGED <<inputs, lambdaIAMRoleNameMap, uploadErrors,
                   rollbackFunctions, tasks, s3Objects, rollbackCalls,
                   cleanups, hookTask>>
    /\ UNCHANGED <<templateVars, s3LambdaZipKey, s3SiteLambdaZipKey, runVars,
                   merges, overwritten, nameVars>>

\* ------------------------------------------------------------------ Upload
TaskNames == {"primary", "site"}

KeyOf(t) == IF t = "primary" THEN ZipKey ELSE SiteKey

\* ensureExpirationPolicy for the upload of key: the calls it issues and the
\* error it returns. Under noop the query is bypassed. Otherwise the query
\* returns the rules of a bucket that has a lifecycle configuration, fails
\* with NoSuchLifecycleConfiguration on a bucket that has none, which is
\* logged as a warning only, or fails with another error, which is returned.
ensureExpirationPolicy(key) ==
    IF noop THEN {[calls |-> <<>>, err |-> NoErr]}
    ELSE {[calls |-> << <<"GetBucketLifecycleConfiguration", key>> >>
                     \o (IF bucketLifecycle = "NoSuchLifecycleConfiguration"
                         THEN << <<"logger.Warning", key>> >> ELSE <<>>),
           err |-> NoErr],
          [calls |-> << <<"GetBucketLifecycleConfiguration", key>> >>,
           err |-> OpErr(<<"GetBucketLifecycleConfiguration", key>>)]}

\* Variant: no deferred function is registered.
UploadDeferred_none(key) == <<>>

\* The deferred os.Remove(localPath) of uploadLocalFileToS3, registered after
\* the policy check; its error is only logged.
UploadDeferred(key) == << <<"os.Remove", key>> >>

\* spartaS3.UploadLocalFileToS3 as uploadLocalFileToS3 calls it: bypassed
\* under noop, otherwise the put fails or creates the object.
PutOutcomes(key) ==
    IF noop THEN {[calls |-> <<>>, err |-> NoErr, put |-> FALSE]}
    ELSE {[calls |-> << <<"PutObject", key>> >>,
           err |-> OpErr(<<"PutObject", key>>), put |-> FALSE],
          [calls |-> << <<"PutObject", key>> >>, err |-> NoErr, put |-> TRUE]}

\* Variant: a missing lifecycle configuration fails the upload.
PolicyFailed_onWarning(policy) ==
    policy.err # NoErr \/ \E i \in 1..Len(policy.calls) :
                             policy.calls[i][1] = "logger.Warning"

\* uploadLocalFileToS3 returns early when ensureExpirationPolicy returned an
\* error.
PolicyFailed(policy) == policy.err # NoErr

\* uploadLocalFileToS3(localPath, ...) for the object key: the calls it
\* issues, the error it returns, the error of the operation that failed and
\* whether the object now exists in the bucket.
uploadLocalFileToS3(key) ==
    UNION {IF PolicyFailed(policy)
           THEN {[calls |-> policy.calls,
                  err |-> <<"Failed to ensure bucket policies: ",
                            "Failed to fetch S3 Bucket Policy: ">>
                              \o OpErr(<<"GetBucketLifecycleConfiguration",
                                         key>>),
                  orig |-> OpErr(<<"GetBucketLifecycleConfiguration", key>>),
                  put |-> FALSE]}
           ELSE {[calls |-> policy.calls \o o.calls \o UploadDeferred(key),
                  err |-> o.err, orig |-> o.err, put |-> o.put] :
                     o \in PutOutcomes(key)}
           : policy \in ensureExpirationPolicy(key)}

\* The ways the site goroutine can fail before it reaches the upload.
SitePrepareFailures ==
    {[calls |-> <<>>, err |-> <<"Failed to create temporary S3 site archive file">>,
      orig |-> OpErr(<<"temporaryFile", SiteKey>>), put |-> FALSE],
     [calls |-> <<>>, err |-> OpErr(<<"filepath.Abs">>),
      orig |-> OpErr(<<"filepath.Abs">>), put |-> FALSE],
     [calls |-> <<>>, err |-> OpErr(<<"AddToZip", SiteKey>>),
      orig |-> OpErr(<<"AddToZip", SiteKey>>), put |-> FALSE]}

TaskOutcomes(t) ==
    IF t = "primary" THEN uploadLocalFileToS3(ZipKey)
    ELSE SitePrepareFailures \cup uploadLocalFileToS3(SiteKey)

\* Variant: the rollback is registered under noop as well.
UploadResult_ignoreNoop(e) == IF e # NoErr THEN "errRead" ELSE "regCheck"

\* What a goroutine does with the result of its upload: append the error,
\* register the rollback (never under noop), or nothing.
UploadResult(e) ==
    IF e # NoErr THEN "errRead" ELSE IF ~noop THEN "regCheck" ELSE "done"

\* createUploadStep up to wg.Wait(): start the primary goroutine and, when a
\* site is declared, the site goroutine.
UploadStart ==
    /\ pc = "upload"
    /\ invoked' = Append(invoked, "Upload")
    /\ uploadErrors' = <<>>
    /\ stepErr' = {}
    /\ tasks' = [t \in TaskNames |->
                    IF t = "primary" \/ s3Site
                    THEN [IdleTask EXCEPT !.pc = "run"] ELSE IdleTask]
    /\ pc' = "uploadWait"
    /\ UNCHANGED <<inputs, calls, lambdaIAMRoleNameMap, rollbackFunctions,
                   s3Objects, rollbackCalls, cleanups, hookTask, next, err, retErr>>
    /\ UNCHANGED <<templateVars, keyVars, runVars, buildVars, nameVars>>

\* Variant: the key is the whole local path under the prefix.
keyName_fullPath(S3KeyPrefix, localPath) == <<S3KeyPrefix>> \o localPath

\* uploadLocalFileToS3: keyName := path.Join(S3KeyPrefix, filepath.Base(localPath))
keyName(S3KeyPrefix, localPath) == <<S3KeyPrefix, Base(localPath)>>

\* The key uploadLocalFileToS3 returns for outcome o: "" with an error.
ReturnedKey(o, localPath) ==
    IF o.err = NoErr THEN keyName(serviceName, localPath) ELSE <<>>

\* A goroutine builds and uploads its archive and stores the returned key;
\* the site goroutine first creates its own temporary file.
TaskRun(t) ==
    /\ tasks[t].pc = "run"
    /\ \E o \in TaskOutcomes(t) :
          /\ IF t = "primary"
             THEN /\ s3LambdaZipKey' = ReturnedKey(o, packagePath)
                  /\ UNCHANGED s3SiteLambdaZipKey
             ELSE /\ UNCHANGED s3LambdaZipKey
                  /\ IF o \in SitePrepareFailures
                     THEN UNCHANGED s3SiteLambdaZipKey
                     ELSE \E n \in tempNames :
                             s3SiteLambdaZipKey' =
                                ReturnedKey(o, temporaryFile("S3Site", n))
          /\ calls' = calls \o o.calls
          /\ s3Objects' = IF o.put THEN s3Objects \cup {KeyOf(t)} ELSE s3Objects
          /\ stepErr' = IF o.err # NoErr THEN stepErr \cup {o.orig} ELSE stepErr
          /\ tasks' = [tasks EXCEPT ![t] =
                          [pc |-> UploadResult(o.err), e |-> o.err, tmp |-> <<>>]]
    /\ UNCHANGED <<inputs, pc, invoked, lambdaIAMRoleNameMap, uploadErrors,
                   rollbackFunctions, rollbackCalls, cleanups, hookTask,
                   next, err, retErr>>
    /\ UNCHANGED <<templateVars, packagePath, runVars, buildVars, nameVars>>

\* uploadErrors = append(uploadErrors, err): the unsynchronized read ...
ErrRead(t) ==
    /\ tasks[t].pc = "errRead"
    /\ tasks' = [tasks EXCEPT ![t].pc = "errWrite", ![t].tmp = uploadErrors]
    /\ UNCHANGED <<inputs, pc, invoked, calls, lambdaIAMRoleNameMap,
                   uploadErrors, rollbackFunctions, s3Objects, rollbackCalls,
                   cleanups, hookTask, stepErr, next, err, retErr>>
    /\ UNCHANGED <<templateVars, keyVars, runVars, buildVars, nameVars>>

\* Variant: the write puts back the slice that was read, without the error.
ErrWrite_lost(t) ==
    /\ tasks[t].pc = "errWrite"
    /\ uploadErrors' = tasks[t].tmp
    /\ tasks' = [tasks EXCEPT ![t].pc = "done", ![t].tmp = <<>>]
    /\ UNCHANGED <<inputs, pc, invoked, calls, lambdaIAMRoleNameMap,
                   rollbackFunctions, s3Objects, rollbackCalls, cleanups,
                   hookTask, stepErr, next, err, retErr>>
    /\ UNCHANGED <<templateVars, keyVars, runVars, buildVars, nameVars>>

\* ... and the write of the slice.
ErrWrite(t) ==
    /\ tasks[t].pc = "errWrite"
    /\ uploadErrors' = Append(tasks[t].tmp, tasks[t].e)
    /\ tasks' = [tasks EXCEPT ![t].pc = "done", ![t].tmp = <<>>]
    /\ UNCHANGED <<inputs, pc, invoked, calls, lambdaIAMRoleNameMap,
                   rollbackFunctions, s3Objects, rollbackCalls, cleanups,
                   hookTask, stepErr, next, err, retErr>>
    /\ UNCHANGED <<templateVars, keyVars, runVars, buildVars, nameVars>>

\* registerRollback as a goroutine runs it, without any lock: the test of
\* the list, ...
RegCheck(t) ==
    /\ tasks[t].pc = "regCheck"
    /\ tasks' = [tasks EXCEPT ![t].pc =
                    IF Len(rollbackFunctions) <= 0 THEN "regMake" ELSE "regRead"]
    /\ UNCHANGED <<inputs, pc, invoked, calls, lambdaIAMRoleNameMap,
                   uploadErrors, rollbackFunctions, s3Objects, rollbackCalls,
                   cleanups, hookTask, stepErr, next, err, retErr>>
    /\ UNCHANGED <<templateVars, keyVars, runVars, buildVars, nameVars>>

\* ... the assignment of a fresh empty list, ...
RegMake(t) ==
    /\ tasks[t].pc = "regMake"
    /\ rollbackFunctions' = <<>>
    /\ tasks' = [tasks EXCEPT ![t].pc = "regRead"]
    /\ UNCHANGED <<inputs, pc, invoked, calls, lambdaIAMRoleNameMap,
                   uploadErrors, s3Objects, rollbackCalls, cleanups, hookTask,
                   stepErr, next, err, retErr>>
    /\ UNCHANGED <<templateVars, keyVars, runVars, buildVars, nameVars>>

\* ... the read of the list for append ...
RegRead(t) ==
    /\ tasks[t].pc = "regRead"
    /\ tasks' = [tasks EXCEPT ![t].pc = "regWrite", ![t].tmp = rollbackFunctions]
    /\ UNCHANGED <<inputs, pc, invoked, calls, lambdaIAMRoleNameMap,
                   uploadErrors, rollbackFunctions, s3Objects, rollbackCalls,
                   cleanups, hookTask, stepErr, next, err, retErr>>
    /\ UNCHANGED <<templateVars, keyVars, runVars, buildVars, nameVars>>

\* ... and the write of the appended list.
RegWrite(t) ==
    /\ tasks[t].pc = "regWrite"
    /\ rollbackFunctions' = Append(tasks[t].tmp, KeyOf(t))
    /\ tasks' = [tasks EXCEPT ![t].pc = "done", ![t].tmp = <<>>]
    /\ UNCHANGED <<inputs, pc, invoked, calls, lambdaIAMRoleNameMap,
                   uploadErrors, s3Objects, rollbackCalls, cleanups, hookTask,
                   stepErr, next, err, retErr>>
    /\ UNCHANGED <<templateVars, keyVars, runVars, buildVars, nameVars>>

\* Variant: the site goroutine is not added to the wait group.
UploadsJoined_primaryOnly == tasks["primary"].pc \in {"idle", "done"}

\* wg.Wait() returns when every started goroutine has called wg.Done().
UploadsJoined == \A t \in TaskNames : tasks[t].pc \in {"idle", "done"}

\* The error createUploadStep builds from uploadErrors: the loop returns in
\* its first iteration, with the header twice and the first error.
UploadError(errors) ==
    <<"Encountered multiple errors during upload:",
      "Encountered multiple errors during upload:">> \o errors[1]

\* createUploadStep from wg.Wait() on.
UploadJoin ==
    /\ pc = "uploadWait"
    /\ UploadsJoined
    /\ Return(AfterUpload,
              IF Len(uploadErrors) > 0 THEN UploadError(uploadErrors)
              ELSE NoErr)
    /\ UNCHANGED <<inputs, invoked, calls, lambdaIAMRoleNameMap, uploadErrors,
                   rollbackFunctions, tasks, s3Objects, rollbackCalls,
                   cleanups, hookTask, stepErr>>
    /\ UNCHANGED <<templateVars, keyVars, runVars, buildVars, nameVars>>

\* ------------------------------------------------------------------ AssembleGraph
\* The operations of ensureCloudFormationStack before the call of
\* applyCloudFormationOperation, in execution order.
AssembleOps ==
    << <<"PreMarshall">> >>
    \o [i \in 1..Len(lambdaAWSInfos) |-> <<"export", lambdaAWSInfos[i].name>>]
    \o (IF api THEN << <<"api.export">>, <<"safeMergeTemplates", "api">> >>
        ELSE <<>>)
    \o (IF s3Site THEN << <<"s3Site.export">> >> ELSE <<>>)
    \o (IF "ServiceDecorator" \in workflowHooks
        THEN << <<"ServiceDecorator">>, <<"safeMergeTemplates", "service">> >>
        ELSE <<>>)
    \o << <<"annotateDiscoveryInfo">>, <<"PostMarshall">> >>

\* The error ensureCloudFormationStack returns when op fails: an error of the
\* gateway export or of its merge is replaced by a fixed message.
AssembleError(op, e) ==
    IF op \in {<<"api.export">>, <<"safeMergeTemplates", "api">>}
    THEN <<"Failed to export APIGateway template resources">>
    ELSE e

\* LambdaAWSInfo.export and customResourceInfo.export: the key iamRoleArnName
\* under which the execution role is looked up. Every definition a declaration
\* points to has its logical name cached by verifyIAMRoles, so that the call
\* of logicalName changes no cache here.
iamRoleArnName(roleName, d, fnName) ==
    IF roleName = "" /\ d # 0
    THEN logicalName(cachedLogicalName, d, fnName).name ELSE <<roleName>>

\* roleNameMap[iamRoleArnName]: nil (<<>>) for a key the map does not hold.
RoleRef(key) ==
    IF key \in DOMAIN lambdaIAMRoleNameMap THEN lambdaIAMRoleNameMap[key]
    ELSE <<>>

\* LambdaAWSInfo.LogicalResourceName
LogicalResourceName(fnName) == <<"Lambda", fnName>>

\* A gocf.Resource as Template.AddResource makes it: the properties, no
\* dependency and no metadata.
Resource(type, properties) ==
    [Type |-> type, Properties |-> properties, DependsOn |-> <<>>,
     Metadata |-> <<>>]

\* safeMetadataInsert(resource, key, value)
safeMetadataInsert(resource, key, value) ==
    [resource EXCEPT !.Metadata = (key :> value) @@ @]

\* The gocf.LambdaFunction resource of an export, with the dependencies and
\* the golangFunc metadata the export sets on it.
LambdaResource(key, fnName, dependsOn) ==
    safeMetadataInsert(
        [Resource("AWS::Lambda::Function",
                  [S3Key |-> s3LambdaZipKey, Role |-> RoleRef(key)])
            EXCEPT !.DependsOn = dependsOn],
        <<"golangFunc">>, fnName)

\* The state of an export: the template, the names whose resource was
\* replaced, the merges made, the error that stopped it and the number of
\* operations of ensureCloudFormationStack done.
Exporting ==
    [template |-> cfTemplate, overwritten |-> overwritten, merges |-> merges,
     err |-> NoErr, done |-> 0]

\* gocf.Template.AddResource: t.Resources[name] = resource; it returns the
\* resource and no error.
AddResource(st, name, body) ==
    [st EXCEPT !.template = (name :> body) @@ @,
               !.overwritten =
                   IF name \in DOMAIN st.template /\ st.template[name] # body
                   THEN @ \cup {name} ELSE @]

\* The logical names two graphs share under different bodies.
Collisions(source, dest) ==
    {n \in DOMAIN source \cap DOMAIN dest : source[n] # dest[n]}

\* safeMergeTemplates(source, dest) and gocc.SafeMerge(source, dest): the
\* resources of source are added to dest; a name dest holds under another
\* body is reported and dest's body is kept.
safeMergeTemplates(source, dest) ==
    [template |-> dest @@ source, errors |-> Collisions(source, dest)]

\* The error of the merge op that found a collision.
CollisionErr(op) == op \o <<"conflicting resources">>

\* Variant: the errors the merge reports are dropped.
Merge_ignoreErrors(st, op, source) ==
    [st EXCEPT !.template = safeMergeTemplates(source, st.template).template,
               !.merges = Append(@, [op |-> op, source |-> source,
                                     dest |-> st.template])]

\* A merge of a sub-graph into the template as ensureCloudFormationStack and
\* applyDecorators make it: when the merge reports errors, the caller returns
\* an error.
Merge(st, op, source) ==
    LET m == safeMergeTemplates(source, st.template)
    IN  [st EXCEPT !.template = m.template,
                   !.merges = Append(@, [op |-> op, source |-> source,
                                         dest |-> st.template]),
                   !.err = IF m.errors # {} THEN CollisionErr(op) ELSE @]

\* EventSourceMapping.export: the resource name is "LambdaES" and a hash of
\* the function name, the source ARN, the batch size and the starting
\* position (the last two are the same in every mapping here); Disabled is
\* not hashed.
EventSourceName(fnName, mapping) ==
    <<"LambdaES", fnName, mapping.EventSourceArn>>

EventSourceResource(fnName, mapping) ==
    Resource("AWS::Lambda::EventSourceMapping",
             [EventSourceArn |-> mapping.EventSourceArn,
              FunctionName |-> <<"Arn">> \o LogicalResourceName(fnName),
              Enabled |-> ~mapping.Disabled])

\* LambdaAWSInfo.export, the loop over info.EventSourceMappings
RECURSIVE exportMappings(_, _, _)
exportMappings(st, fnName, mappings) ==
    IF mappings = <<>> THEN st
    ELSE exportMappings(
             AddResource(st, EventSourceName(fnName, Head(mappings)),
                         EventSourceResource(fnName, Head(mappings))),
             fnName, Tail(mappings))

\* customResourceInfo.logicalName
resourceLogicalName(resourceInfo) ==
    <<"CustomResource", resourceInfo.userFunctionName>>

\* customResourceInfo.export: the function that implements the custom
\* resource and the custom resource that invokes it.
lambdaFunctionCFName(resourceInfo) ==
    <<"CustomResourceLambda", resourceInfo.userFunctionName>>

customResourceExport(st, resourceInfo) ==
    AddResource(
        AddResource(st, lambdaFunctionCFName(resourceInfo),
                    LambdaResource(iamRoleArnName(resourceInfo.roleName,
                                               resourceInfo.roleDefinition,
                                               resourceInfo.userFunctionName),
                                   resourceInfo.userFunctionName, <<>>)),
        resourceLogicalName(resourceInfo),
        Resource("Custom::SpartaLambdaCustomResource",
                 [ServiceToken |->
                     <<"Arn">> \o lambdaFunctionCFName(resourceInfo)]))

\* LambdaAWSInfo.export, the loop over info.customResources
RECURSIVE CustomResources(_, _)
CustomResources(st, crs) ==
    IF crs = <<>> THEN st
    ELSE CustomResources(customResourceExport(st, Head(crs)), Tail(crs))

\* LambdaAWSInfo.applyDecorators from decorator j on: each decorator fills a
\* new template, which is merged into the main one.
RECURSIVE applyDecorators(_, _, _, _)
applyDecorators(st, fnName, ds, j) ==
    IF j > Len(ds) \/ st.err # NoErr THEN st
    ELSE applyDecorators(Merge(st, <<"SafeMerge", fnName, j>>, ds[j]),
                         fnName, ds, j + 1)

\* Variant: RequireCustomResource adds nothing to info.DependsOn.
DependsOn_none(info) == <<>>

\* info.DependsOn as LambdaAWSInfo.RequireCustomResource leaves it: the
\* logical name of every custom resource of the function.
DependsOn(info) ==
    [j \in 1..Len(info.customResources) |->
        resourceLogicalName(info.customResources[j])]

\* LambdaAWSInfo.export of lambdaAWSInfos[i]
export(st, i) ==
    LET info == lambdaAWSInfos[i]
        dependsOn ==
            DependsOn(info) \o
            (IF info.RoleName = "" /\ info.RoleDefinition # 0
             THEN <<logicalName(cachedLogicalName, info.RoleDefinition,
                                info.name).name>>
             ELSE <<>>)
        function ==
            AddResource(st, LogicalResourceName(info.name),
                        LambdaResource(iamRoleArnName(info.RoleName,
                                                      info.RoleDefinition,
                                                      info.name),
                                       info.name, dependsOn))
    IN  applyDecorators(
            CustomResources(
                exportMappings(function, info.name, eventSourceMappings[i]),
                info.customResources),
            info.name, decorators[i], 1)

\* The template api.export fills: the gateway and the resources of the
\* gateway's own declarations.
apiGatewayTemplate ==
    apiResources @@
    (<<"APIGateway">> :>
        Resource("AWS::ApiGateway::RestApi", [S3Key |-> s3LambdaZipKey]))

\* The errors S3Site.export can return: the one of lambdaFunctionEnvironment
\* and the one of newCloudFormationResource.
SiteExportErrors ==
    {OpErr(<<"lambdaFunctionEnvironment">>),
     OpErr(<<"newCloudFormationResource">>)}

\* S3Site.export: the bucket, the function that fills it, which depends on
\* the bucket, and the custom resource that invokes the function. An export
\* that returns an error leaves the resources it added before in the
\* template.
s3SiteExport(st) ==
    LET bucket ==
            AddResource(st, <<"S3SiteBucket">>,
                        Resource("AWS::S3::Bucket", <<>>))
        creator ==
            AddResource(bucket, <<"S3SiteCreator">>,
                [Resource("AWS::Lambda::Function",
                          [S3Key |-> s3LambdaZipKey, Role |-> <<>>])
                    EXCEPT !.DependsOn = << <<"S3SiteBucket">> >>])
    IN  IF errSiteExport = OpErr(<<"lambdaFunctionEnvironment">>) THEN bucket
        ELSE IF errSiteExport = OpErr(<<"newCloudFormationResource">>)
        THEN creator
        ELSE AddResource(creator, <<"S3SiteBuilder">>,
                         Resource("Custom::ZipToS3Bucket",
                                  [S3Key |-> s3SiteLambdaZipKey]))

\* outputsForResource(template, key): the outputs of the resource the
\* template holds under key, none for a key it does not hold.
outputsForResource(template, key) ==
    IF key \in DOMAIN template THEN <<"Outputs", template[key].Type>>
    ELSE <<>>

\* annotateDiscoveryInfo, the loop over eachResource.DependsOn from key j on
RECURSIVE dependencyOutputs(_, _, _)
dependencyOutputs(template, resource, j) ==
    IF j > Len(resource.DependsOn) THEN resource
    ELSE LET key == resource.DependsOn[j]
             outputs == outputsForResource(template, key)
         IN  dependencyOutputs(template,
                               IF outputs # <<>>
                               THEN safeMetadataInsert(resource, key, outputs)
                               ELSE resource,
                               j + 1)

\* The metadata keys TagLogicalResourceID, TagStackRegion, TagStackID and
\* TagStackName.
TagLogicalResourceID == <<"TagLogicalResourceID">>

StackTags ==
    (<<"TagStackRegion">> :> <<"Ref", "AWS::Region">>)
    @@ (<<"TagStackID">> :> <<"Ref", "AWS::StackId">>)
    @@ (<<"TagStackName">> :> <<"Ref", "AWS::StackName">>)

\* Variant: every resource is annotated, whatever its type.
Discoverable_anyType(resource) == TRUE

\* annotateDiscoveryInfo applies to the resources of the function type only.
Discoverable(resource) == resource.Type = "AWS::Lambda::Function"

\* annotateDiscoveryInfo
annotateDiscoveryInfo(template) ==
    [id \in DOMAIN template |->
        IF Discoverable(template[id])
        THEN LET resource == dependencyOutputs(template, template[id], 1)
             IN  [resource EXCEPT !.Metadata =
                     StackTags @@ (TagLogicalResourceID :> id) @@ @]
        ELSE template[id]]

\* One operation of ensureCloudFormationStack that did not return an error
\* of its own, applied to the state of the export.
OpResources(op, st) ==
    IF op[1] = "export"
    THEN export(st, CHOOSE i \in 1..Len(lambdaAWSInfos) :
                        lambdaAWSInfos[i].name = op[2])
    ELSE IF op = <<"safeMergeTemplates", "api">>
    THEN Merge(st, op, apiGatewayTemplate)
    ELSE IF op = <<"s3Site.export">>
    THEN s3SiteExport(st)
    ELSE IF op = <<"safeMergeTemplates", "service">>
    THEN Merge(st, op, serviceResources)
    ELSE IF op = <<"annotateDiscoveryInfo">>
    THEN [st EXCEPT !.template = annotateDiscoveryInfo(@)]
    ELSE st

\* The state of the export after the operations ops, in order, up to the
\* first one that ends with an error.
RECURSIVE Exported(_, _)
Exported(ops, st) ==
    IF ops = <<>> \/ st.err # NoErr THEN st
    ELSE Exported(Tail(ops),
                  [OpResources(Head(ops), st) EXCEPT !.done = @ + 1])

\* ensureCloudFormationStack up to the call of applyCloudFormationOperation:
\* it ends at the first merge that finds a collision, or at operation k when
\* that one returns an error of its own.
ensureCloudFormationStack ==
    /\ pc = "ensureCloudFormationStack"
    /\ invoked' = Append(invoked, "AssembleGraph")
    /\ \E k \in FailPoints(AssembleOps) :
          LET ops == Executed(AssembleOps, k - 1)
              st == Exported(ops, Exporting)
          IN  /\ cfTemplate' = st.template
              /\ merges' = st.merges
              /\ overwritten' = st.overwritten
              /\ IF st.err # NoErr
                 THEN /\ calls' = calls \o SubSeq(ops, 1, st.done)
                      /\ stepErr' = {st.err}
                      /\ Return("nil", AssembleError(ops[st.done], st.err))
                 ELSE IF k <= Len(AssembleOps)
                 THEN /\ calls' = calls \o Executed(AssembleOps, k)
                      /\ stepErr' = {OpErr(AssembleOps[k])}
                      /\ Return("nil", AssembleError(AssembleOps[k],
                                                     OpErr(AssembleOps[k])))
                 ELSE /\ calls' = calls \o ops
                      /\ stepErr' = {}
                      /\ pc' = "applyCloudFormationOperation"
                      /\ UNCHANGED <<next, err, retErr>>
    /\ UNCHANGED <<inputs, lambdaIAMRoleNameMap, uploadErrors,
                   rollbackFunctions, tasks, s3Objects, rollbackCalls,
                   cleanups, hookTask>>
    /\ UNCHANGED <<cachedLogicalName, keyVars, runVars, nameVars,
                   lambdaArchive>>

\* ------------------------------------------------------------------ Converge
\* registerRollback called from the control thread.
registerRollback(list, userFunction) ==
    Append(IF Len(list) <= 0 THEN <<>> ELSE list, userFunction)

\* Variant: the template's rollback is registered before the converge call,
\* whatever its result.
applyCloudFormationOperation_registerFirst ==
    /\ pc = "applyCloudFormationOperation"
    /\ invoked' = Append(invoked, "Converge")
    /\ \/ /\ calls' = Append(calls, <<"json.Marshal">>)
          /\ stepErr' = {OpErr(<<"json.Marshal">>)}
          /\ Return("nil", OpErr(<<"json.Marshal">>))
          /\ UNCHANGED <<rollbackFunctions, s3Objects>>
       \/ /\ noop
          /\ Return("nil", NoErr)
          /\ UNCHANGED <<calls, stepErr, rollbackFunctions, s3Objects>>
       \/ /\ ~noop
          /\ calls' = Append(calls, <<"ConvergeStackState">>)
          /\ rollbackFunctions' =
                registerRollback(rollbackFunctions, TemplateKey)
          /\ \/ /\ stepErr' = {OpErr(<<"ConvergeStackState">>)}
                /\ Return("nil", OpErr(<<"ConvergeStackState">>))
                /\ \E uploaded \in BOOLEAN :
                      s3Objects' = IF uploaded THEN s3Objects \cup {TemplateKey}
                                   ELSE s3Objects
             \/ /\ stepErr' = {}
                /\ s3Objects' = s3Objects \cup {TemplateKey}
                /\ Return("nil", NoErr)
    /\ UNCHANGED <<inputs, lambdaIAMRoleNameMap, uploadErrors, tasks,
                   rollbackCalls, cleanups, hookTask>>
    /\ UNCHANGED <<templateVars, keyVars, runVars, buildVars, nameVars>>

\* applyCloudFormationOperation, called last by ensureCloudFormationStack:
\* its result is the result of the step.
applyCloudFormationOperation ==
    /\ pc = "applyCloudFormationOperation"
    /\ invoked' = Append(invoked, "Converge")
    /\ \/ /\ calls' = Append(calls, <<"json.Marshal">>)
          /\ stepErr' = {OpErr(<<"json.Marshal">>)}
          /\ Return("nil", OpErr(<<"json.Marshal">>))
          /\ UNCHANGED <<rollbackFunctions, s3Objects>>
       \/ /\ noop
          /\ Return("nil", NoErr)
          /\ UNCHANGED <<calls, stepErr, rollbackFunctions, s3Objects>>
       \/ /\ ~noop
          /\ calls' = Append(calls, <<"ConvergeStackState">>)
          /\ \/ /\ stepErr' = {OpErr(<<"ConvergeStackState">>)}
                /\ Return("nil", OpErr(<<"ConvergeStackState">>))
                /\ \E uploaded \in BOOLEAN :
                      s3Objects' = IF uploaded THEN s3Objects \cup {TemplateKey}
                                   ELSE s3Objects
                /\ UNCHANGED rollbackFunctions
             \/ /\ stepErr' = {}
                /\ s3Objects' = s3Objects \cup {TemplateKey}
                /\ rollbackFunctions' =
                      registerRollback(rollbackFunctions, TemplateKey)
                /\ Return("nil", NoErr)
    /\ UNCHANGED <<inputs, lambdaIAMRoleNameMap, uploadErrors, tasks,
                   rollbackCalls, cleanups, hookTask>>
    /\ UNCHANGED <<templateVars, keyVars, runVars, buildVars, nameVars>>

\* ------------------------------------------------------------------ rollback
\* Variant: the loop over the registered functions skips the first one.
RollbackStart_skipFirst ==
    /\ pc = "rollback"
    /\ rollbackCalls' = rollbackCalls + 1
    /\ cleanups' = [i \in 1..Len(rollbackFunctions) |->
                       [fn |-> rollbackFunctions[i],
                        pc |-> IF i = 1 THEN "done" ELSE "spawned", count |-> 0]]
    /\ hookTask' = IF "Rollback" \in workflowHooks
                   THEN [pc |-> "spawned", count |-> 0] ELSE IdleHook
    /\ pc' = "rollbackWait"
    /\ UNCHANGED <<inputs, invoked, calls, lambdaIAMRoleNameMap, uploadErrors,
                   rollbackFunctions, tasks, s3Objects, stepErr, next, err, retErr>>
    /\ UNCHANGED <<templateVars, keyVars, runVars, buildVars, nameVars>>

\* ctx.rollback() up to wg.Wait(): one goroutine per registered function and
\* one for the Rollback hook when it is set.
RollbackStart ==
    /\ pc = "rollback"
    /\ rollbackCalls' = rollbackCalls + 1
    /\ cleanups' = [i \in 1..Len(rollbackFunctions) |->
                       [fn |-> rollbackFunctions[i], pc |-> "spawned", count |-> 0]]
    /\ hookTask' = IF "Rollback" \in workflowHooks
                   THEN [pc |-> "spawned", count |-> 0] ELSE IdleHook
    /\ pc' = "rollbackWait"
    /\ UNCHANGED <<inputs, invoked, calls, lambdaIAMRoleNameMap, uploadErrors,
                   rollbackFunctions, tasks, s3Objects, stepErr, next, err, retErr>>
    /\ UNCHANGED <<templateVars, keyVars, runVars, buildVars, nameVars>>

\* A cleanup goroutine calls its rollback function ...
CleanupBegin(i) ==
    /\ cleanups[i].pc = "spawned"
    /\ cleanups' = [cleanups EXCEPT ![i].pc = "running", ![i].count = @ + 1]
    /\ calls' = Append(calls, <<"DeleteObject", cleanups[i].fn>>)
    /\ UNCHANGED <<inputs, pc, invoked, lambdaIAMRoleNameMap, uploadErrors,
                   rollbackFunctions, tasks, s3Objects, rollbackCalls,
                   hookTask, stepErr, next, err, retErr>>
    /\ UNCHANGED <<templateVars, keyVars, runVars, buildVars, nameVars>>

\* ... which deletes the object or fails; a failure is only logged.
CleanupEnd(i) ==
    /\ cleanups[i].pc = "running"
    /\ \E ok \in BOOLEAN :
          s3Objects' = IF ok THEN s3Objects \ {cleanups[i].fn} ELSE s3Objects
    /\ cleanups' = [cleanups EXCEPT ![i].pc = "done"]
    /\ UNCHANGED <<inputs, pc, invoked, calls, lambdaIAMRoleNameMap,
                   uploadErrors, rollbackFunctions, tasks, rollbackCalls,
                   hookTask, stepErr, next, err, retErr>>
    /\ UNCHANGED <<templateVars, keyVars, runVars, buildVars, nameVars>>

\* The hook goroutine calls the Rollback hook ...
HookBegin ==
    /\ hookTask.pc = "spawned"
    /\ hookTask' = [pc |-> "running", count |-> hookTask.count + 1]
    /\ calls' = Append(calls, <<"Rollback">>)
    /\ UNCHANGED <<inputs, pc, invoked, lambdaIAMRoleNameMap, uploadErrors,
                   rollbackFunctions, tasks, s3Objects, rollbackCalls,
                   cleanups, stepErr, next, err, retErr>>
    /\ UNCHANGED <<templateVars, keyVars, runVars, buildVars, nameVars>>

\* ... which returns nothing.
HookEnd ==
    /\ hookTask.pc = "running"
    /\ hookTask' = [hookTask EXCEPT !.pc = "done"]
    /\ UNCHANGED <<inputs, pc, invoked, calls, lambdaIAMRoleNameMap,
                   uploadErrors, rollbackFunctions, tasks, s3Objects,
                   rollbackCalls, cleanups, stepErr, next, err, retErr>>
    /\ UNCHANGED <<templateVars, keyVars, runVars, buildVars, nameVars>>

\* Variant: the hook goroutine never calls wg.Done().
RollbackJoined_hookNeverDone ==
    /\ \A i \in 1..Len(cleanups) : cleanups[i].pc = "done"
    /\ hookTask.pc = "idle"

\* Variant: the wait group counts only the registered functions, not the hook.
RollbackJoined_noHook ==
    \A i \in 1..Len(cleanups) : cleanups[i].pc = "done"

\* wg.Wait() of rollback returns when every goroutine has called wg.Done().
RollbackJoined ==
    /\ \A i \in 1..Len(cleanups) : cleanups[i].pc = "done"
    /\ hookTask.pc \in {"idle", "done"}

\* rollback() returns and Provision returns the error of the step.
RollbackJoin ==
    /\ pc = "rollbackWait"
    /\ RollbackJoined
    /\ pc' = "done"
    /\ retErr' = err
    /\ UNCHANGED <<inputs, invoked, calls, lambdaIAMRoleNameMap, uploadErrors,
                   rollbackFunctions, tasks, s3Objects, rollbackCalls,
                   cleanups, hookTask, stepErr, next, err>>
    /\ UNCHANGED <<templateVars, keyVars, runVars, buildVars, nameVars>>

\* ------------------------------------------------------------------ specification
Next ==
    \/ Validate
    \/ verifyIAMRoles
    \/ createPackageStep
    \/ UploadStart
    \/ \E t \in TaskNames : TaskRun(t)
    \/ \E t \in TaskNames : ErrRead(t)
    \/ \E t \in TaskNames : ErrWrite(t)
    \/ \E t \in TaskNames : RegCheck(t)
    \/ \E t \in TaskNames : RegMake(t)
    \/ \E t \in TaskNames : RegRead(t)
    \/ \E t \in TaskNames : RegWrite(t)
    \/ UploadJoin
    \/ ensureCloudFormationStack
    \/ applyCloudFormationOperation
    \/ RollbackStart
    \/ \E i \in 1..Len(cleanups) : CleanupBegin(i)
    \/ \E i \in 1..Len(cleanups) : CleanupEnd(i)
    \/ HookBegin
    \/ HookEnd
    \/ RollbackJoin

Spec == Init /\ [][Next]_vars

\* ------------------------------------------------------------------ properties
\* The states of the workflow in the order the chain visits them.
StepOrder == <<"VerifyRoles", "Package", "Upload", "AssembleGraph", "Converge">>

IsPrefix(a, b) == Len(a) <= Len(b) /\ SubSeq(b, 1, Len(a)) = a

\* The control thread is inside the step function at these positions; the
\* step function returns to the loop of Provision when pc leaves them, except
\* for ensureCloudFormationStack calling applyCloudFormationOperation.
InStep ==
    {"verifyIAMRoles", "package", "uploadWait", "ensureCloudFormationStack",
     "applyCloudFormationOperation"}

StepReturned ==
    /\ pc \in InStep
    /\ pc' # pc
    /\ pc' # "applyCloudFormationOperation"

Halted == pc \in {"rollback", "rollbackWait", "done"}

\* C1: in the loop of Provision a step that returns an error is followed by
\* rollback and by no further step; a step that returns (nil, nil) ends the
\* chain with Provision returning nil; otherwise the step that was returned
\* is the one invoked next.
C1_TransitionRule ==
    [][/\ StepReturned =>
            IF stepErr' # {}
            THEN err' # NoErr /\ pc' = "rollback"
            ELSE IF next' = "nil"
            THEN pc' = "done" /\ retErr' = NoErr
            ELSE pc' = next'
       /\ Halted => invoked' = invoked
       /\ (invoked' # invoked /\ pc # "applyCloudFormationOperation"
              /\ invoked # <<>>) => pc = next]_vars

\* C1 witness: a step failed, rollback ran and the chain stopped there.
C1_Witness ==
    /\ pc = "done"
    /\ invoked = <<"VerifyRoles", "Package">>
    /\ err # NoErr
    /\ rollbackCalls = 1

\* C2: the steps are entered in the order VerifyRoles, Package, Upload,
\* AssembleGraph, Converge, each at most once and each only when no error
\* has been returned and no upload task is still running; a run that ends
\* without error has entered all five.
C2_StepOrder ==
    /\ [](IsPrefix(invoked, StepOrder))
    /\ []((pc = "done" /\ retErr = NoErr) => invoked = StepOrder)
    /\ [][invoked' # invoked =>
            /\ err = NoErr
            /\ stepErr = {}
            /\ \A t \in DOMAIN tasks : tasks[t].pc \in {"idle", "done"}]_vars

\* C2 witness: a run that ended without error.
C2_Witness == pc = "done" /\ retErr = NoErr /\ invoked = StepOrder

\* What the rollback goroutines have done so far.
CleanupInvocations ==
    {i \in 1..Len(calls) : calls[i][1] = "DeleteObject"}

HookInvocations == {i \in 1..Len(calls) : calls[i] = <<"Rollback">>}

\* C3: rollback() is called at most once in a Provision call, only after a
\* step returned an error, and by the time Provision returns it has been
\* called exactly when a step returned an error; a run in which every step
\* succeeds invokes no rollback function and no rollback hook.
C3_RollbackOnce ==
    /\ rollbackCalls <= 1
    /\ rollbackCalls = 1 => (err # NoErr /\ stepErr # {})
    /\ pc = "done" => (rollbackCalls = 1 <=> stepErr # {})
    /\ (pc = "done" /\ stepErr = {}) =>
          (CleanupInvocations = {} /\ HookInvocations = {}
              /\ hookTask.count = 0 /\ cleanups = <<>>)

\* C3 witness: a successful run with registered rollback functions and a
\* rollback hook, none of which was invoked.
C3_Witness ==
    /\ pc = "done"
    /\ retErr = NoErr
    /\ Len(rollbackFunctions) = 3
    /\ "Rollback" \in workflowHooks

\* The message e contains the message o.
Carries(e, o) ==
    \E i \in 1..(Len(e) - Len(o) + 1) : SubSeq(e, i, i + Len(o) - 1) = o

\* The operations C4 is about: build, upload, exports, merges, converge.
C4_Operations ==
    {"go generate", "go build", "GetBucketLifecycleConfiguration", "PutObject",
     "export", "api.export", "s3Site.export", "safeMergeTemplates",
     "ConvergeStackState"}

\* C4: when a step fails because a build, an upload, an export, a merge or
\* the converge call failed, the error Provision returns carries the error
\* of every operation that failed.
C4_OriginalErrorReturned ==
    pc = "done" =>
        \A o \in stepErr : o[1] \in C4_Operations => Carries(retErr, o)

\* A precondition of Provision is violated: no function, a handler with an
\* invalid signature, or two functions with one name.
PreconditionViolated ==
    \/ Len(lambdaAWSInfos) = 0
    \/ \E i \in 1..Len(lambdaAWSInfos) : ~lambdaAWSInfos[i].validSig
    \/ \E i, j \in 1..Len(lambdaAWSInfos) :
          i # j /\ lambdaAWSInfos[i].name = lambdaAWSInfos[j].name

\* C5: when a precondition is violated Provision returns an error without
\* entering a step: no external call is issued, rollback() is not called and
\* the rollback hook is not invoked.
C5_PreconditionNoRollback ==
    PreconditionViolated =>
        /\ pc \in {"validate", "done"}
        /\ pc = "done" => retErr # NoErr
        /\ invoked = <<>>
        /\ calls = <<>>
        /\ rollbackCalls = 0
        /\ hookTask.count = 0

\* C5 witness: Provision returned on a duplicate function name, a rollback
\* hook being set.
C5_Witness ==
    /\ pc = "done"
    /\ Len(lambdaAWSInfos) = 2
    /\ lambdaAWSInfos[1].name = lambdaAWSInfos[2].name
    /\ \A i \in 1..2 : lambdaAWSInfos[i].validSig
    /\ "Rollback" \in workflowHooks
    /\ retErr # NoErr

\* C6: rollback() starts one task per registered function and one for the
\* rollback hook, each function is invoked exactly once, rollback() returns
\* only when all of them have completed, and a failing function neither
\* stops the others nor changes the error of the run.
C6_RollbackRunsAll ==
    /\ pc \in {"rollbackWait", "done"} /\ rollbackCalls = 1 =>
          /\ Len(cleanups) = Len(rollbackFunctions)
          /\ \A i \in 1..Len(cleanups) :
                /\ cleanups[i].fn = rollbackFunctions[i]
                /\ cleanups[i].count <= 1
          /\ hookTask.count <= 1
          /\ "Rollback" \in workflowHooks => hookTask.pc # "idle"
    /\ pc = "done" /\ rollbackCalls = 1 =>
          /\ \A i \in 1..Len(cleanups) :
                cleanups[i].pc = "done" /\ cleanups[i].count = 1
          /\ Cardinality(CleanupInvocations) = Len(rollbackFunctions)
          /\ "Rollback" \in workflowHooks =>
                hookTask.pc = "done" /\ hookTask.count = 1
          /\ retErr = err

\* C6 witness: the first function has failed (its object is still there),
\* the second function and the hook are running at the same time.
C6_Witness ==
    /\ pc = "rollbackWait"
    /\ Len(cleanups) = 2
    /\ cleanups[1].pc = "done"
    /\ cleanups[1].fn \in s3Objects
    /\ cleanups[2].pc = "running"
    /\ hookTask.pc = "running"

\* The upload of task t has returned without error.
Uploaded(t) == tasks[t].pc \notin {"idle", "run"} /\ tasks[t].e = NoErr

UploadFailed(t) == tasks[t].pc \notin {"idle", "run"} /\ tasks[t].e # NoErr

\* The Upload step has returned an error, one upload having succeeded and
\* the other having failed, with a site declared and dry-run off.
OneUploadFailed(t) ==
    /\ s3Site /\ ~noop
    /\ invoked = <<"VerifyRoles", "Package", "Upload">>
    /\ Halted
    /\ Uploaded(t)
    /\ \E u \in DOMAIN tasks : u # t /\ UploadFailed(u)

\* C7: when one of the two uploads succeeds and the other fails, the delete
\* action of the successful upload is in the rollback list when the step
\* returns and the rollback that follows invokes it.
C7_PartialUploadRollback ==
    \A t \in DOMAIN tasks : OneUploadFailed(t) =>
        /\ \E i \in 1..Len(rollbackFunctions) :
              rollbackFunctions[i] = (IF t = "primary" THEN ZipKey ELSE SiteKey)
        /\ pc = "done" =>
              \E i \in 1..Len(cleanups) :
                 /\ cleanups[i].fn = (IF t = "primary" THEN ZipKey ELSE SiteKey)
                 /\ cleanups[i].count = 1

\* C7 witness: the primary upload succeeded, the site upload failed and the
\* rollback has deleted the archive.
C7_Witness ==
    /\ OneUploadFailed("primary")
    /\ pc = "done"
    /\ <<"DeleteObject", ZipKey>> \in Range(calls)

\* C8: when both uploads succeed with dry-run off, the rollback list holds
\* exactly the two delete actions once both tasks are done.
C8_NoLostRegistration ==
    (/\ s3Site /\ ~noop
     /\ \A t \in DOMAIN tasks : tasks[t].pc = "done" /\ tasks[t].e = NoErr
     /\ invoked = <<"VerifyRoles", "Package", "Upload">>) =>
        /\ Len(rollbackFunctions) = 2
        /\ Range(rollbackFunctions) = {ZipKey, SiteKey}

\* C9: a delete action enters the rollback list only when its object has
\* been created by an operation that returned success: never for an upload
\* that failed or was skipped under dry-run, and for the template only when
\* the converge call returned without error.
C9_RegisterAfterSuccess ==
    /\ [][\A k \in Range(rollbackFunctions') \ Range(rollbackFunctions) :
            /\ ~noop
            /\ k \in s3Objects'
            /\ k = TemplateKey =>
                  (calls'[Len(calls')] = <<"ConvergeStackState">>
                      /\ err' = NoErr /\ stepErr' = {})]_vars
    /\ [](\A t \in DOMAIN tasks :
            (tasks[t].pc = "done" /\ (tasks[t].e # NoErr \/ noop)) =>
                (IF t = "primary" THEN ZipKey ELSE SiteKey)
                    \notin Range(rollbackFunctions))
    /\ [](TemplateKey \in Range(rollbackFunctions) =>
            (pc = "done" /\ retErr = NoErr))

\* C9 witness: both uploads and the converge call succeeded; the site
\* action was registered first, the template action last.
C9_Witness ==
    /\ pc = "done"
    /\ rollbackFunctions = <<SiteKey, ZipKey, TemplateKey>>
    /\ s3Objects = {SiteKey, ZipKey, TemplateKey}
    /\ calls[Len(calls)] = <<"ConvergeStackState">>

\* C10: an upload task runs only while the control thread waits in the
\* Upload step: the step returns, and AssembleGraph or rollback begins, only
\* when the primary task and the site task have finished.
C10_UploadJoinsBoth ==
    /\ (\E t \in DOMAIN tasks : tasks[t].pc \notin {"idle", "done"}) =>
          pc = "uploadWait"
    /\ (Len(invoked) >= 3 /\ pc # "uploadWait") =>
          /\ tasks["primary"].pc = "done"
          /\ tasks["site"].pc = IF s3Site THEN "done" ELSE "idle"

\* C10 witness: rollback begins after a failed site task and a successful
\* primary task have both finished.
C10_Witness ==
    /\ pc = "rollback"
    /\ s3Site
    /\ tasks["primary"].pc = "done" /\ tasks["primary"].e = NoErr
    /\ tasks["site"].pc = "done" /\ tasks["site"].e # NoErr

\* C11: when the Upload step has failed, the aggregate error it returned
\* lists every error the upload tasks collected in uploadErrors, not only
\* the first one.
C11_AggregateListsAll ==
    (Halted /\ invoked = SubSeq(StepOrder, 1, 3) /\ Len(uploadErrors) > 0) =>
        \A i \in 1..Len(uploadErrors) : Carries(err, uploadErrors[i])

\* The external calls that delete the object key.
Deletes(key) == {i \in 1..Len(calls) : calls[i] = <<"DeleteObject", key>>}

\* The run C12 is about: dry-run off, one function, no gateway, no site, and
\* the converge call failed after the archive was uploaded.
ConvergeFailedAfterUpload ==
    /\ ~noop /\ Len(lambdaAWSInfos) = 1 /\ ~api /\ ~s3Site
    /\ stepErr = {OpErr(<<"ConvergeStackState">>)}
    /\ Uploaded("primary")

\* C12: with dry-run off, one function, no gateway and no site, when the
\* converge call fails after a successful upload the rollback starts exactly
\* one compensating action, the delete of the uploaded archive, and when it
\* has returned that delete was invoked once and no delete of the template
\* object was invoked.
C12_ConvergeFailureRollback ==
    /\ (ConvergeFailedAfterUpload /\ pc \in {"rollbackWait", "done"}) =>
          /\ Len(cleanups) = 1
          /\ cleanups[1].fn = ZipKey
          /\ Deletes(TemplateKey) = {}
    /\ (ConvergeFailedAfterUpload /\ pc = "done") =>
          /\ Cardinality(Deletes(ZipKey)) = 1
          /\ cleanups[1].count = 1

\* C12 witness: Provision has returned the converge error after the single
\* compensating action ran, with the template object left in the bucket.
C12_Witness ==
    /\ ConvergeFailedAfterUpload
    /\ pc = "done"
    /\ retErr = OpErr(<<"ConvergeStackState">>)
    /\ cleanups[1].count = 1
    /\ TemplateKey \in s3Objects

\* The external calls C13 excludes from a dry run: the lifecycle-policy
\* query, the object put, the object delete and the converge call.
SideEffectCalls ==
    {"GetBucketLifecycleConfiguration", "PutObject", "DeleteObject",
     "ConvergeStackState"}

\* The failures that do not come from an external service: of the site
\* goroutine before its upload and of the marshalling of the template.
LocalFailures ==
    {OpErr(<<"temporaryFile", SiteKey>>), OpErr(<<"filepath.Abs">>),
     OpErr(<<"AddToZip", SiteKey>>), OpErr(<<"json.Marshal">>)}

InitDryRun ==
    /\ noop = TRUE
    /\ lambdaAWSInfos \in SeqsUpTo(HandleAWSLambda, MaxLambdas)
    /\ api \in BOOLEAN
    /\ s3Site \in BOOLEAN
    /\ workflowHooks \in HookConfigs
    /\ tempNames = 1..MaxTempNames
    /\ Plain
    /\ Start
    /\ Unobserved

\* The caller calls Provision again, with the same arguments, after a call
\* that ran the full chain: a new workflowContext with a new template is
\* made; the declarations, and the names cached in them, are the same objects.
Reprovision ==
    /\ pc = "done" /\ retErr = NoErr /\ invoked = StepOrder
    /\ run < MaxRuns
    /\ run' = run + 1
    /\ firstTemplate' = cfTemplate
    /\ pc' = "validate"
    /\ invoked' = <<>>
    /\ calls' = <<>>
    /\ lambdaIAMRoleNameMap' = <<>>
    /\ uploadErrors' = <<>>
    /\ rollbackFunctions' = <<>>
    /\ tasks' = [t \in TaskNames |-> IdleTask]
    /\ cleanups' = <<>>
    /\ hookTask' = IdleHook
    /\ stepErr' = {}
    /\ next' = "nil"
    /\ err' = NoErr
    /\ cfTemplate' = <<>>
    /\ packagePath' = <<>>
    /\ s3LambdaZipKey' = <<>>
    /\ s3SiteLambdaZipKey' = <<>>
    /\ lambdaArchive' = <<>>
    /\ merges' = <<>>
    /\ overwritten' = {}
    /\ UNCHANGED <<inputs, s3Objects, rollbackCalls, retErr, cachedLogicalName,
                   nameVars>>

\* The actions of a dry run: no rollback function is ever registered, so the
\* registration steps and the cleanup goroutines never run.
NextDryRun ==
    \/ Validate
    \/ verifyIAMRoles
    \/ createPackageStep
    \/ UploadStart
    \/ \E t \in TaskNames : TaskRun(t)
    \/ \E t \in TaskNames : ErrRead(t)
    \/ \E t \in TaskNames : ErrWrite(t)
    \/ UploadJoin
    \/ ensureCloudFormationStack
    \/ applyCloudFormationOperation
    \/ RollbackStart
    \/ HookBegin
    \/ HookEnd
    \/ RollbackJoin
    \/ Reprovision

SpecDryRun == InitDryRun /\ [][NextDryRun]_vars

\* C14: a second dry run with the same declarations, service name, bucket
\* and build id that ran the full chain ends with the same resource graph as
\* the first one.
C14_DryRunsSameGraph ==
    (run = 2 /\ pc = "done" /\ retErr = NoErr /\ invoked = StepOrder) =>
        cfTemplate = firstTemplate

\* ------------------------------------------------------------------ role resolution
\* The execution role of a declaration: a role name or an inline definition,
\* one of the two.
RoleChoices ==
    {<<r, 0>> : r \in RoleNames \ {""}} \cup {<<"", d>> : d \in RoleDefs}

\* LambdaAWSInfo.RequireCustomResource: the custom resources of one function.
CustomResourceChoices ==
    SeqsUpTo({[userFunctionName |-> c, roleName |-> rc[1],
               roleDefinition |-> rc[2]] :
                 c \in CustomResourceNames, rc \in RoleChoices},
             MaxCustomResources)

\* Provision called with functions of distinct names and valid signatures,
\* whose roles and custom resources are chosen freely: two declarations can
\* name the same role or point to the same definition.
InitRoles ==
    /\ noop = FALSE
    /\ api = FALSE
    /\ s3Site = FALSE
    /\ workflowHooks = {}
    /\ tempNames = {1}
    /\ \E names \in UNION {Orderings(S) : S \in SUBSET FnNames} :
          /\ Len(names) \in 1..MaxLambdas
          /\ \E rc \in [1..Len(names) -> RoleChoices] :
             \E crs \in [1..Len(names) -> CustomResourceChoices] :
                lambdaAWSInfos =
                    [i \in 1..Len(names) |->
                        [name |-> names[i], validSig |-> TRUE,
                         RoleName |-> rc[i][1], RoleDefinition |-> rc[i][2],
                         customResources |-> crs[i]]]
    /\ Plain
    /\ Start
    /\ Unobserved

\* Provision up to the return of verifyIAMRoles, and the rollback after its
\* failure.
NextRoles ==
    \/ Validate
    \/ verifyIAMRoles
    \/ RollbackStart
    \/ RollbackJoin

SpecRoles == InitRoles /\ [][NextRoles]_vars

\* verifyIAMRoles has returned createPackageStep().
RolesVerified == pc = "package" /\ invoked = <<"VerifyRoles">>

\* The names of the declarations that point to the inline definition d.
Owners(d) ==
    UNION {({lambdaAWSInfos[i].name} \cap
               {n \in FnNames : lambdaAWSInfos[i].RoleDefinition = d})
           \cup {lambdaAWSInfos[i].customResources[j].userFunctionName :
                    j \in {k \in 1..Len(lambdaAWSInfos[i].customResources) :
                             lambdaAWSInfos[i].customResources[k].roleDefinition = d}}
           : i \in 1..Len(lambdaAWSInfos)}

\* The role resources of the template.
RoleResources ==
    {k \in DOMAIN cfTemplate : cfTemplate[k] = RoleResource}

Lookups(r) == {i \in 1..Len(calls) : calls[i] = <<"GetRole", r>>}

\* The role names collected from the functions and their custom resources.
NamedRoles ==
    {lambdaAWSInfos[i].RoleName : i \in 1..Len(lambdaAWSInfos)}
    \cup UNION {{lambdaAWSInfos[i].customResources[j].roleName :
                    j \in 1..Len(lambdaAWSInfos[i].customResources)} :
                i \in 1..Len(lambdaAWSInfos)}

GetRoleFailed ==
    \E r \in RoleNames \ {""} : OpErr(<<"GetRole", r>>) \in stepErr

\* C17: when the lookup of a named role fails, verifyIAMRoles returns that
\* error: the failed lookup is the last one issued and was issued once, the
\* chain halts with VerifyRoles as the only step entered, and no rollback
\* function is registered or run.
C17_GetRoleFailureHalts ==
    GetRoleFailed =>
        /\ Halted
        /\ invoked = <<"VerifyRoles">>
        /\ err \in stepErr
        /\ pc = "done" => retErr = err
        /\ rollbackFunctions = <<>>
        /\ cleanups = <<>>
        /\ \E r \in RoleNames \ {""} :
              /\ err = OpErr(<<"GetRole", r>>)
              /\ Cardinality(Lookups(r)) = 1
              /\ \A q \in RoleNames \ {""} :
                    \A i \in Lookups(q) : \A j \in Lookups(r) : i <= j

\* C17 witness: the first of two distinct role names is unknown; the second
\* was never looked up and Provision returned the error.
C17_Witness ==
    /\ GetRoleFailed
    /\ pc = "done"
    /\ Len(lambdaAWSInfos) = 2
    /\ lambdaAWSInfos[1].RoleName = "r1" /\ lambdaAWSInfos[2].RoleName = "r2"
    /\ retErr = OpErr(<<"GetRole", "r1">>)
    /\ Lookups("r2") = {}

SameDerivedName(n) ==
    \E i, j \in 1..Len(lambdaAWSInfos) :
        i # j /\ lambdaAWSInfos[i].name = n /\ lambdaAWSInfos[j].name = n

\* C19: when two declared functions derive the same function name, Provision
\* returns a precondition error that names the duplicate, and it returns it
\* before any step is entered and any build, upload or converge call is
\* issued.
C19_DuplicateNameRejected ==
    \A n \in FnNames :
        (SameDerivedName(n) /\ pc # "validate") =>
            /\ pc = "done"
            /\ Carries(retErr, <<"Multiple definitions of lambda: ", n>>)
            /\ invoked = <<>>
            /\ calls = <<>>
            /\ s3Objects = {}

\* C19 witness: two functions with valid signatures, both named f1, and
\* Provision returned the error naming f1.
C19_Witness ==
    /\ pc = "done"
    /\ SameDerivedName("f1")
    /\ \A i \in 1..Len(lambdaAWSInfos) : lambdaAWSInfos[i].validSig
    /\ retErr = <<"Multiple definitions of lambda: ", "f1">>

\* ------------------------------------------------------------------ derived names
\* The characters of a name: a word character, the path separator and a
\* character that is neither.
Chars == {"a", "/", "-"}

Names == SeqsUpTo(Chars, MaxNameLen)

\* strings.Split(s, "/"), last part
RECURSIVE LastPart(_)
LastPart(s) ==
    IF s = <<>> THEN <<>>
    ELSE IF s[Len(s)] = "/" THEN <<>>
    ELSE LastPart(SubSeq(s, 1, Len(s) - 1)) \o <<s[Len(s)]>>

\* The regular expression class \w
IsWord(c) == c \in {"a", "_"}

\* sanitizedName: reSanitize.ReplaceAllString(input, "_"), every maximal run
\* of characters outside \w becomes one underscore.
RECURSIVE sanitizedName(_)
sanitizedName(input) ==
    IF input = <<>> THEN <<>>
    ELSE IF IsWord(Head(input))
    THEN <<Head(input)>> \o sanitizedName(Tail(input))
    ELSE IF Len(input) > 1 /\ ~IsWord(input[2])
    THEN sanitizedName(Tail(input))
    ELSE <<"_">> \o sanitizedName(Tail(input))

\* lambdaFunctionName() on a declaration without lambdaFn whose names hold
\* no parenthesis: the string it returns and the declaration after the call.
lambdaFunctionName(info) ==
    IF info.cachedLambdaFunctionName # <<>>
    THEN [name |-> info.cachedLambdaFunctionName, info |-> info]
    ELSE LET lambdaFuncName ==
                 IF info.Name # <<>> THEN info.Name
                 ELSE sanitizedName(
                          IF \E i \in 1..Len(info.userSuppliedFunctionName) :
                                 info.userSuppliedFunctionName[i] = "/"
                          THEN LastPart(info.userSuppliedFunctionName)
                          ELSE info.userSuppliedFunctionName)
         IN  [name |-> lambdaFuncName,
              info |-> [info EXCEPT !.cachedLambdaFunctionName = lambdaFuncName]]

\* A declaration as HandleAWSLambda and NewLambdaFunctionOptions make it.
InitNames ==
    /\ noop = FALSE
    /\ lambdaAWSInfos = <<>>
    /\ api = FALSE
    /\ s3Site = FALSE
    /\ workflowHooks = {}
    /\ tempNames = {1}
    /\ Plain
    /\ Start
    /\ declaration \in [userSuppliedFunctionName : Names, Name : Names,
                         cachedLambdaFunctionName : {<<>>}]
    /\ returned = <<>>

\* A caller calls lambdaFunctionName() on the declaration.
CallLambdaFunctionName ==
    /\ Len(returned) < MaxCalls
    /\ returned' = Append(returned, lambdaFunctionName(declaration).name)
    /\ declaration' = lambdaFunctionName(declaration).info
    /\ UNCHANGED <<inputs, pc, invoked, calls, lambdaIAMRoleNameMap,
                   uploadErrors, rollbackFunctions, tasks, s3Objects,
                   rollbackCalls, cleanups, hookTask, stepErr, next, err, retErr>>
    /\ UNCHANGED <<templateVars, keyVars, runVars, buildVars>>

\* The program assigns Options.SpartaOptions.Name between two calls.
SetOptionsName ==
    /\ returned # <<>>
    /\ \E n \in Names : declaration' = [declaration EXCEPT !.Name = n]
    /\ UNCHANGED <<inputs, pc, invoked, calls, lambdaIAMRoleNameMap,
                   uploadErrors, rollbackFunctions, tasks, s3Objects,
                   rollbackCalls, cleanups, hookTask, stepErr, next, err, retErr>>
    /\ UNCHANGED <<templateVars, keyVars, runVars, buildVars, returned>>

\* The program assigns userSuppliedFunctionName between two calls.
SetUserSuppliedFunctionName ==
    /\ returned # <<>>
    /\ \E n \in Names :
          declaration' = [declaration EXCEPT !.userSuppliedFunctionName = n]
    /\ UNCHANGED <<inputs, pc, invoked, calls, lambdaIAMRoleNameMap,
                   uploadErrors, rollbackFunctions, tasks, s3Objects,
                   rollbackCalls, cleanups, hookTask, stepErr, next, err, retErr>>
    /\ UNCHANGED <<templateVars, keyVars, runVars, buildVars, returned>>

NextNames ==
    \/ CallLambdaFunctionName
    \/ SetOptionsName
    \/ SetUserSuppliedFunctionName

SpecNames == InitNames /\ [][NextNames]_vars

\* C20: every call of lambdaFunctionName() on a declaration returns the
\* string the first call returned, whatever was assigned to the
\* declaration's options or user-supplied name in between.
C20_DerivedNameIdempotent ==
    \A i \in 1..Len(returned) : returned[i] = returned[1]

\* ------------------------------------------------------------------ resource graph
MaxMappings == 2

MaxDecorators == 1

\* The event source mappings of one function: they name one source, and
\* differ in Disabled only.
EventSourceMapping == [EventSourceArn : {"arn"}, Disabled : BOOLEAN]

\* The sub-graphs a decorator, the gateway's declarations or the service
\* decorator add: a topic under a name of its own, or a topic under the
\* logical name of one of the functions.
SubGraphs ==
    {<<"Topic">> :> Resource("AWS::SNS::Topic", <<>>)} \cup
    {LogicalResourceName(f) :> Resource("AWS::SNS::Topic", <<>>) :
        f \in FnNames}

\* Provision called with one or two functions of valid signatures; the first
\* one has a role name or an inline definition, may require a custom
\* resource, and has event source mappings and decorators; the gateway and
\* the service decorator, when set, add a sub-graph of their own. A site is
\* declared along with functions without mappings and decorators only.
InitGraph ==
    /\ noop = FALSE
    /\ api \in BOOLEAN
    /\ s3Site \in BOOLEAN
    /\ workflowHooks \in {{}, AllHooks}
    /\ tempNames = {1}
    /\ \E n \in 1..2, rc \in RoleChoices, crs \in CustomResourceChoices :
          /\ rc[1] \in {"", "r1"} /\ rc[2] \in {0, 1}
          /\ \A j \in 1..Len(crs) :
                /\ crs[j].userFunctionName = "c1"
                /\ crs[j].roleName = "r1"
          /\ lambdaAWSInfos =
                [i \in 1..n |->
                    [name |-> IF i = 1 THEN "f1" ELSE "f2", validSig |-> TRUE,
                     RoleName |-> IF i = 1 THEN rc[1] ELSE "r1",
                     RoleDefinition |-> IF i = 1 THEN rc[2] ELSE 0,
                     customResources |-> IF i = 1 THEN crs ELSE <<>>]]
    /\ \E ms \in SeqsUpTo(EventSourceMapping, MaxMappings) :
          /\ \A j \in 1..Len(ms) : ms[j].Disabled = (j > 1)
          /\ eventSourceMappings =
                [i \in 1..Len(lambdaAWSInfos) |-> IF i = 1 THEN ms ELSE <<>>]
    /\ \E ds \in SeqsUpTo(SubGraphs, MaxDecorators) :
          decorators =
              [i \in 1..Len(lambdaAWSInfos) |-> IF i = 1 THEN ds ELSE <<>>]
    /\ apiResources \in
          IF api THEN {<<>>, LogicalResourceName("f1") :>
                                 Resource("AWS::SNS::Topic", <<>>)}
          ELSE {<<>>}
    /\ serviceResources \in
          IF "ServiceDecorator" \in workflowHooks
          THEN {<<>>, LogicalResourceName("f1") :>
                          Resource("AWS::SNS::Topic", <<>>)}
          ELSE {<<>>}
    /\ s3Site =>
          /\ eventSourceMappings[1] = <<>> /\ decorators[1] = <<>>
          /\ apiResources = <<>> /\ serviceResources = <<>>
    /\ workflowHookLists = {}
    /\ jsHandlerNames = [n \in FnNames \cup CustomResourceNames |-> n]
    /\ errRemove = NoErr
    /\ bucketLifecycle = "Enabled"
    /\ errSiteExport \in
          IF s3Site THEN {NoErr} \cup SiteExportErrors ELSE {NoErr}
    /\ Start
    /\ Unobserved

SpecGraph == InitGraph /\ [][Next]_vars

\* The merge logged as merges[i] found a name its two graphs hold under
\* different bodies.
Collided(i) == Collisions(merges[i].source, merges[i].dest) # {}

\* C21: when the merge of a sub-graph (gateway export, service decorator
\* output, function decorator output) into the main graph finds a logical
\* name both hold under different bodies, the merge returns a collision
\* error and is the last merge made, the AssembleGraph step fails and the
\* chain halts there, no converge call is made, and the main graph holds for
\* every name the body it held before the merge.
C21_CollisionFailsStep ==
    \A i \in 1..Len(merges) :
        Collided(i) =>
            /\ i = Len(merges)
            /\ stepErr = {CollisionErr(merges[i].op)}
            /\ Halted
            /\ err # NoErr
            /\ invoked = SubSeq(StepOrder, 1, 4)
            /\ <<"json.Marshal">> \notin Range(calls)
            /\ <<"ConvergeStackState">> \notin Range(calls)
            /\ \A n \in DOMAIN merges[i].dest :
                  cfTemplate[n] = merges[i].dest[n]

\* C21 witness: the service decorator added a topic under the logical name
\* of function f1; Provision returned the collision error of that merge
\* after a gateway merge and a decorator merge without collision.
C21_Witness ==
    /\ pc = "done"
    /\ Len(merges) = 3
    /\ Collided(3)
    /\ merges[3].op = <<"safeMergeTemplates", "service">>
    /\ retErr = CollisionErr(<<"safeMergeTemplates", "service">>)
    /\ cfTemplate[LogicalResourceName("f1")].Type = "AWS::Lambda::Function"

\* C22: adding a resource under a logical name the graph holds with a
\* different body is an error in every export path: whenever an export has
\* replaced the body held under a name, the AssembleGraph step has failed
\* and the chain has halted there.
C22_NoSilentOverwrite ==
    overwritten # {} =>
        /\ Halted
        /\ err # NoErr
        /\ invoked = SubSeq(StepOrder, 1, 4)

\* ensureCloudFormationStack has exported every declaration and run the
\* annotation pass.
Assembled == <<"annotateDiscoveryInfo">> \in Range(calls)

\* The resources resource id depends on in the graph.
Dependencies(id) == Range(cfTemplate[id].DependsOn)

\* C24 as stated: in the assembled graph every custom resource depends on
\* the resource of its owning function, and the owning function does not
\* depend on the custom resource.
C24_CustomResourceDependsOnFunction ==
    Assembled =>
        \A i \in 1..Len(lambdaAWSInfos) :
            \A j \in 1..Len(lambdaAWSInfos[i].customResources) :
                LET function == LogicalResourceName(lambdaAWSInfos[i].name)
                    custom ==
                        resourceLogicalName(lambdaAWSInfos[i].customResources[j])
                IN  /\ function \in Dependencies(custom)
                    /\ custom \notin Dependencies(function)

\* C24, amended: in the assembled graph the resource of the owning function
\* depends on every custom resource the function requires, so the function
\* is provisioned after them; neither the custom resource nor the function
\* that implements it depends on the owning function.
C24_FunctionDependsOnCustomResource ==
    Assembled =>
        \A i \in 1..Len(lambdaAWSInfos) :
            \A j \in 1..Len(lambdaAWSInfos[i].customResources) :
                LET function == LogicalResourceName(lambdaAWSInfos[i].name)
                    resourceInfo == lambdaAWSInfos[i].customResources[j]
                    custom == resourceLogicalName(resourceInfo)
                IN  /\ custom \in Dependencies(function)
                    /\ function \notin Dependencies(custom)
                    /\ function \notin
                          Dependencies(lambdaFunctionCFName(resourceInfo))

\* C24 witness: Provision returned without error for a service whose first
\* function requires a custom resource.
C24_Witness ==
    /\ pc = "done"
    /\ retErr = NoErr
    /\ Assembled
    /\ lambdaAWSInfos[1].customResources # <<>>
    /\ resourceLogicalName(lambdaAWSInfos[1].customResources[1])
          \in DOMAIN cfTemplate

\* The positions in calls of the annotation pass.
Annotations ==
    {i \in 1..Len(calls) : calls[i] = <<"annotateDiscoveryInfo">>}

\* The exports and merges of the declarations: one export per function, the
\* merge of the gateway's template, the site's export and the merge of the
\* service decorator's template.
ExportCalls ==
    {<<"export", lambdaAWSInfos[i].name>> : i \in 1..Len(lambdaAWSInfos)}
    \cup (IF api THEN {<<"safeMergeTemplates", "api">>} ELSE {})
    \cup (IF s3Site THEN {<<"s3Site.export">>} ELSE {})
    \cup (IF "ServiceDecorator" \in workflowHooks
          THEN {<<"safeMergeTemplates", "service">>} ELSE {})

\* The calls of the converge step.
ConvergeCalls == {<<"json.Marshal">>, <<"ConvergeStackState">>}

\* C30: the annotation pass runs at most once in a run, after every
\* function, gateway, site and service-decorator export has been merged into
\* the main graph and before any call of the converge step; once it has run,
\* every resource of the function type holds in its metadata its own logical
\* id, the stack's region, id and name, and the outputs of each resource it
\* depends on, and every resource of another type has the metadata it had
\* before, none; before it has run no resource holds a logical id.
C30_AnnotationPass ==
    /\ Cardinality(Annotations) <= 1
    /\ \A a \in Annotations :
          /\ \A e \in ExportCalls : \E i \in 1..a - 1 : calls[i] = e
          /\ \A i \in 1..Len(calls) :
                /\ calls[i] \in ExportCalls => i < a
                /\ calls[i] \in ConvergeCalls => a < i
    /\ (Range(calls) \cap ConvergeCalls # {}) => Assembled
    /\ \A id \in DOMAIN cfTemplate :
          LET resource == cfTemplate[id]
          IN  IF Assembled /\ resource.Type = "AWS::Lambda::Function"
              THEN /\ TagLogicalResourceID \in DOMAIN resource.Metadata
                   /\ resource.Metadata[TagLogicalResourceID] = id
                   /\ \A tag \in DOMAIN StackTags :
                         /\ tag \in DOMAIN resource.Metadata
                         /\ resource.Metadata[tag] = StackTags[tag]
                   /\ \A key \in Range(resource.DependsOn) :
                         key \in DOMAIN cfTemplate =>
                            /\ key \in DOMAIN resource.Metadata
                            /\ resource.Metadata[key] =
                                  outputsForResource(cfTemplate, key)
              ELSE /\ TagLogicalResourceID \notin DOMAIN resource.Metadata
                   /\ resource.Type # "AWS::Lambda::Function" =>
                         resource.Metadata = <<>>

\* C30 witness: Provision returned without error for a service with a
\* gateway, a site and a service decorator whose first function has an inline
\* role and requires a custom resource: the function's metadata holds the
\* outputs of both, the site's function those of its bucket.
C30_Witness ==
    /\ pc = "done"
    /\ retErr = NoErr
    /\ Assembled
    /\ api /\ s3Site /\ "ServiceDecorator" \in workflowHooks
    /\ lambdaAWSInfos[1].RoleName = ""
    /\ lambdaAWSInfos[1].customResources # <<>>
    /\ Cardinality(DOMAIN cfTemplate[LogicalResourceName("f1")].Metadata) = 7
    /\ <<"S3SiteBucket">> \in DOMAIN cfTemplate[<<"S3SiteCreator">>].Metadata

\* ------------------------------------------------------------------ package
\* The handler names jsHandlerName() can return.
Identifiers == {"h1", "h2"}

\* Provision called with functions of distinct names, valid signatures and a
\* role name, which require custom resources; two declarations can have the
\* same handler name, and os.Remove can fail.
InitPackage ==
    /\ noop = FALSE
    /\ api = FALSE
    /\ s3Site = FALSE
    /\ workflowHooks \in {{}, AllHooks}
    /\ tempNames = {1}
    /\ \E names \in UNION {Orderings(S) : S \in SUBSET FnNames} :
          /\ Len(names) \in 1..MaxLambdas
          /\ \E crs \in [1..Len(names) -> CustomResourceChoices] :
                /\ \A i \in 1..Len(names) : \A j \in 1..Len(crs[i]) :
                      crs[i][j].roleName = "r1"
                /\ lambdaAWSInfos =
                      [i \in 1..Len(names) |->
                          [name |-> names[i], validSig |-> TRUE,
                           RoleName |-> "r1", RoleDefinition |-> 0,
                           customResources |-> crs[i]]]
    /\ eventSourceMappings = [i \in 1..Len(lambdaAWSInfos) |-> <<>>]
    /\ decorators = [i \in 1..Len(lambdaAWSInfos) |-> <<>>]
    /\ apiResources = <<>>
    /\ serviceResources = <<>>
    /\ workflowHookLists = {}
    /\ jsHandlerNames \in [FnNames \cup CustomResourceNames -> Identifiers]
    /\ errRemove \in {NoErr, OpErr(<<"os.Remove">>)}
    /\ bucketLifecycle = "Enabled"
    /\ errSiteExport = NoErr
    /\ Start
    /\ Unobserved

\* Provision up to the return of createPackageStep, and the rollback after a
\* failure.
NextPackage ==
    \/ Validate
    \/ verifyIAMRoles
    \/ createPackageStep
    \/ RollbackStart
    \/ HookBegin
    \/ HookEnd
    \/ RollbackJoin

SpecPackage == InitPackage /\ [][NextPackage]_vars

\* The entries of index.js in the archive, <<>> when it is not written.
IndexJS ==
    IF \E i \in 1..Len(lambdaArchive) : lambdaArchive[i][1] = "index.js"
    THEN lambdaArchive[CHOOSE i \in 1..Len(lambdaArchive) :
                           lambdaArchive[i][1] = "index.js"][2]
    ELSE <<>>

\* The names of the functions and custom resources declared.
Declared ==
    UNION {{lambdaAWSInfos[i].name} \cup
           {lambdaAWSInfos[i].customResources[j].userFunctionName :
               j \in 1..Len(lambdaAWSInfos[i].customResources)} :
           i \in 1..Len(lambdaAWSInfos)}

BuildAttempted == <<"go build">> \in Range(calls)

BuildFailed == OpErr(<<"go build">>) \in stepErr

\* The last operation of createPackageStep returned without error.
Packaged ==
    /\ <<"tmpFile.Close">> \in Range(calls)
    /\ OpErr(<<"tmpFile.Close">>) \notin stepErr

\* The positions in calls of the deletions of the binary.
Removals == {i \in 1..Len(calls) : calls[i] = <<"os.Remove", "binary">>}

\* The deletion of the binary failed and the Package step returned an error
\* though none of its operations did.
RemovalFailedStep ==
    \/ OpErr(<<"os.Remove">>) \in {err, retErr}
    \/ Packaged /\ (err # NoErr \/ pc # "upload")

\* C26 as stated: on every path through the Package step on which the
\* compile was attempted, the failure of the compile included, the binary is
\* deleted before the step returns, and a failed deletion does not make the
\* step fail.
C26_BinaryDeletedOnEveryPath ==
    BuildAttempted =>
        /\ Cardinality(Removals) = 1
        /\ ~RemovalFailedStep

\* C26, amended: on every path through the Package step on which the
\* compile succeeded, whether the step then succeeds or fails at a later
\* sub-step, the binary is deleted once, after the last operation of the step
\* and before the step returns, and a failed deletion does not make the step
\* fail; when the compile itself fails no deletion is attempted.
C26_BinaryDeletedAfterBuild ==
    BuildAttempted =>
        /\ ~RemovalFailedStep
        /\ IF BuildFailed THEN Removals = {}
           ELSE /\ Cardinality(Removals) = 1
                /\ \A r \in Removals : \A i \in 1..Len(calls) :
                      calls[i] \in Range(PackageOps) => i < r

\* C26 witness: the Package step returned the Upload step after a deletion
\* of the binary that failed.
C26_Witness ==
    /\ pc = "upload"
    /\ err = NoErr
    /\ errRemove # NoErr
    /\ Packaged
    /\ Cardinality(Removals) = 1

\* ------------------------------------------------------------------ hooks
\* The positions in calls of the calls of op.
Calls(op) == {i \in 1..Len(calls) : calls[i] = op}

\* op was called before position i.
Before(op, i) == \E j \in Calls(op) : j < i

\* C27: the Archive hook is invoked after the archive has been populated
\* with the compiled binary, the shim and the support scripts, and before
\* the archive writer is closed.
C27_ArchiveHookAfterPopulated ==
    \A i \in Calls(<<"Archive">>) :
        /\ Before(<<"AddToZip">>, i)
        /\ Before(<<"writeNodeJSShim">>, i)
        /\ Before(<<"writeCustomResources">>, i)
        /\ ~Before(<<"lambdaArchive.Close">>, i)

\* The calls that export a declaration into the graph.
MarshallCalls ==
    {<<"export", f>> : f \in FnNames} \cup
    {<<"api.export">>, <<"safeMergeTemplates", "api">>, <<"s3Site.export">>}

\* The calls made after a step has failed: the deferred deletion of the
\* binary and the calls of the rollback.
CleanupCallNames == {"os.Remove", "Rollback", "DeleteObject"}

\* The step each of the four hooks is called in, as a position of StepOrder.
HookStep ==
    [PreBuild |-> 2, PostBuild |-> 2, PreMarshall |-> 4, PostMarshall |-> 4]

\* C28: the workflow hooks run at fixed points and a hook error halts the
\* chain. PreBuild is called before the code generation and the compile;
\* PostBuild only after a compile that succeeded and before the archive file
\* is created; PreMarshall before any function, gateway or site is exported
\* into the graph; PostMarshall after the annotation pass and before any call
\* of the converge step; a hook that is set is not skipped; and when one of
\* them returns an error, Provision returns that error, no later step is
\* entered and the only calls made afterwards are the deferred deletion of
\* the binary and those of the rollback.
C28_HookPoints ==
    /\ \A i \in Calls(<<"PreBuild">>) :
          ~Before(<<"go generate">>, i) /\ ~Before(<<"go build">>, i)
    /\ \A i \in Calls(<<"go generate">>) :
          "PreBuild" \in workflowHooks => Before(<<"PreBuild">>, i)
    /\ \A i \in Calls(<<"PostBuild">>) :
          /\ Before(<<"go build">>, i)
          /\ ~Before(<<"temporaryFile">>, i)
          /\ OpErr(<<"go build">>) \notin stepErr
    /\ \A i \in Calls(<<"temporaryFile">>) :
          "PostBuild" \in workflowHooks => Before(<<"PostBuild">>, i)
    /\ \A i \in Calls(<<"PreMarshall">>) :
          \A op \in MarshallCalls : ~Before(op, i)
    /\ \A op \in MarshallCalls : \A i \in Calls(op) :
          "PreMarshall" \in workflowHooks => Before(<<"PreMarshall">>, i)
    /\ \A i \in Calls(<<"PostMarshall">>) :
          /\ Before(<<"annotateDiscoveryInfo">>, i)
          /\ \A op \in ConvergeCalls : ~Before(op, i)
    /\ \A op \in ConvergeCalls : \A i \in Calls(op) :
          "PostMarshall" \in workflowHooks => Before(<<"PostMarshall">>, i)
    /\ \A h \in DOMAIN HookStep :
          OpErr(<<h>>) \in stepErr =>
              /\ Halted
              /\ err = OpErr(<<h>>)
              /\ pc = "done" => retErr = OpErr(<<h>>)
              /\ invoked = SubSeq(StepOrder, 1, HookStep[h])
              /\ \A i \in Calls(<<h>>) : \A j \in i + 1..Len(calls) :
                    calls[j][1] \in CleanupCallNames

\* C28 witness: Provision returned the error of the PostMarshall hook, which
\* was called after the three other hooks and the annotation pass.
C28_Witness ==
    /\ pc = "done"
    /\ retErr = OpErr(<<"PostMarshall">>)
    /\ Before(<<"PreBuild">>, Len(calls) + 1)
    /\ Before(<<"PostBuild">>, Len(calls) + 1)
    /\ Before(<<"PreMarshall">>, Len(calls) + 1)
    /\ Before(<<"annotateDiscoveryInfo">>, Len(calls) + 1)
    /\ lambdaAWSInfos # <<>>

MaxHandlers == 2

\* The list-valued hook of every single-valued hook of WorkflowHooks.
HookLists ==
    [PreBuild |-> "PreBuilds", PostBuild |-> "PostBuilds",
     Archive |-> "Archives", PreMarshall |-> "PreMarshalls",
     ServiceDecorator |-> "ServiceDecorators",
     PostMarshall |-> "PostMarshalls", Rollback |-> "Rollbacks"]

ListNames == {HookLists[h] : h \in DOMAIN HookLists}

\* Provision called with one function and with workflow hooks whose lists
\* hold MaxHandlers handlers each: no list is set, one is, or all are.
InitHooks ==
    /\ noop \in BOOLEAN
    /\ lambdaAWSInfos =
          <<[name |-> "f1", validSig |-> TRUE, RoleName |-> "r1",
             RoleDefinition |-> 0, customResources |-> <<>>]>>
    /\ api = FALSE
    /\ s3Site = FALSE
    /\ workflowHooks \in HookConfigs
    /\ tempNames = {1}
    /\ eventSourceMappings = <<<<>>>>
    /\ decorators = <<<<>>>>
    /\ apiResources = <<>>
    /\ serviceResources = <<>>
    /\ workflowHookLists \in
          {{}, ListNames} \cup {{l} : l \in ListNames}
    /\ jsHandlerNames = [n \in FnNames \cup CustomResourceNames |-> n]
    /\ errRemove = NoErr
    /\ bucketLifecycle = "Enabled"
    /\ errSiteExport = NoErr
    /\ Start
    /\ Unobserved

SpecHooks == InitHooks /\ [][Next]_vars

\* The workflow has passed the point at which the hooks of type h are
\* called: an operation that follows the point was called, or, for the
\* rollback hooks, the rollback has returned.
PointPassed(h) ==
    LET called(ops) == \E op \in ops : Calls(op) # {}
    IN  CASE h = "PreBuild" -> called({<<"go generate">>})
          [] h = "PostBuild" -> called({<<"temporaryFile">>})
          [] h = "Archive" -> called({<<"lambdaArchive.Close">>})
          [] h = "PreMarshall" -> called({<<"annotateDiscoveryInfo">>})
          [] h = "ServiceDecorator" -> called({<<"annotateDiscoveryInfo">>})
          [] h = "PostMarshall" -> called(ConvergeCalls)
          [] h = "Rollback" -> rollbackCalls > 0 /\ pc = "done"

\* C29: for every hook type, once the workflow has passed the point of the
\* hook, all handlers registered in the hook's list have been invoked, once
\* each and in registration order, and the legacy single handler, when set,
\* was invoked before the first handler of the list.
C29_HookListsInvoked ==
    \A h \in DOMAIN HookLists :
        (HookLists[h] \in workflowHookLists /\ PointPassed(h)) =>
            /\ \A n \in 1..MaxHandlers :
                  Cardinality(Calls(<<HookLists[h], n>>)) = 1
            /\ \A n \in 1..MaxHandlers - 1 :
                  \A i \in Calls(<<HookLists[h], n>>) :
                      \A j \in Calls(<<HookLists[h], n + 1>>) : i < j
            /\ h \in workflowHooks =>
                  \A j \in Calls(<<HookLists[h], 1>>) : Before(<<h>>, j)

\* ------------------------------------------------------------------ two-phase export
\* The positions of the call op among the calls made so far.
Positions(op) == {i \in 1..Len(calls) : calls[i] = op}

\* C31: the gateway is exported into a scratch graph first, the site export
\* then reads the scratch graph's outputs, and the scratch graph is merged
\* into the main graph last: the merge of the gateway's graph never precedes
\* the site export that reads its outputs.
C31_ScratchGraphMergedLast ==
    s3Site /\ Positions(<<"safeMergeTemplates", "api">>) # {} /\ pc = "done"
    /\ retErr = NoErr
    => \A m \in Positions(<<"safeMergeTemplates", "api">>) :
          /\ \E e \in Positions(<<"api.export">>) : e < m
          /\ \E s \in Positions(<<"s3Site.export">>) : s < m

\* ------------------------------------------------------------------ upload
\* One declaration, with or without a site, in a real or a dry run, and a
\* bucket with or without a lifecycle configuration.
InitUpload ==
    /\ noop \in BOOLEAN
    /\ lambdaAWSInfos =
          <<[name |-> "f1", validSig |-> TRUE, RoleName |-> "r1",
             RoleDefinition |-> 0, customResources |-> <<>>]>>
    /\ api = FALSE
    /\ s3Site \in BOOLEAN
    /\ workflowHooks \in {{}, {"Rollback"}}
    /\ tempNames = {1}
    /\ eventSourceMappings = <<<<>>>>
    /\ decorators = <<<<>>>>
    /\ apiResources = <<>>
    /\ serviceResources = <<>>
    /\ workflowHookLists = {}
    /\ jsHandlerNames = [n \in FnNames \cup CustomResourceNames |-> n]
    /\ errRemove = NoErr
    /\ bucketLifecycle \in {"Enabled", "NoSuchLifecycleConfiguration"}
    /\ errSiteExport = NoErr
    /\ Start
    /\ Unobserved

SpecUpload == InitUpload /\ [][Next]_vars

\* The goroutine t has returned from uploadLocalFileToS3 or has ended before
\* it called it.
Ran(t) == tasks[t].pc \notin {"idle", "run"}

\* The error of t is the one of the lifecycle query.
PolicyQueryFailed(t) ==
    /\ Len(tasks[t].e) >= 1
    /\ tasks[t].e[1] = "Failed to ensure bucket policies: "

\* C32: when the bucket has no lifecycle configuration, the upload is not
\* failed by the policy check: the check logs a warning and the put is then
\* attempted, and fails the upload only when the put fails; only another
\* error of the policy query, for which no warning is logged, fails the
\* upload before the put.
C32_MissingPolicyWarnsOnly ==
    bucketLifecycle = "NoSuchLifecycleConfiguration" /\ ~noop
    => \A t \in TaskNames :
          Ran(t)
          /\ Positions(<<"GetBucketLifecycleConfiguration", KeyOf(t)>>) # {}
          => \/ /\ PolicyQueryFailed(t)
                /\ Positions(<<"logger.Warning", KeyOf(t)>>) = {}
                /\ Positions(<<"PutObject", KeyOf(t)>>) = {}
             \/ /\ ~PolicyQueryFailed(t)
                /\ Positions(<<"logger.Warning", KeyOf(t)>>) # {}
                /\ \A w \in Positions(<<"logger.Warning", KeyOf(t)>>) :
                      \E q \in Positions(<<"PutObject", KeyOf(t)>>) : w < q
                /\ tasks[t].e \in {NoErr, OpErr(<<"PutObject", KeyOf(t)>>)}

\* An upload to a bucket without lifecycle configuration has succeeded.
C32_Witness ==
    /\ bucketLifecycle = "NoSuchLifecycleConfiguration"
    /\ ~noop
    /\ Ran("primary")
    /\ tasks["primary"].e = NoErr
    /\ ZipKey \in s3Objects
    /\ Positions(<<"logger.Warning", ZipKey>>) # {}

\* C33: whenever uploadLocalFileToS3 has returned success, in a dry run or
\* not, the removal of the local file it was given was attempted before it
\* returned.
C33_SuccessRemovesLocalFile ==
    \A t \in TaskNames :
       Ran(t) /\ tasks[t].e = NoErr
       => Positions(<<"os.Remove", KeyOf(t)>>) # {}

\* Both uploads of a dry run with a site have returned success.
C33_Witness ==
    /\ noop
    /\ Ran("primary") /\ tasks["primary"].e = NoErr
    /\ Ran("site") /\ tasks["site"].e = NoErr
    /\ Positions(<<"os.Remove", SiteKey>>) # {}

\* ------------------------------------------------------------------ rollback order
\* The call that made the object which the rollback function fn deletes.
ForwardCall(fn) ==
    IF fn = TemplateKey THEN <<"ConvergeStackState">> ELSE <<"PutObject", fn>>

\* C34: the order of the functions in the rollback list equals the order in
\* which their forward operations succeeded, however the two upload
\* goroutines interleave.
C34_RollbackOrderIsSuccessOrder ==
    \A i, j \in 1..Len(rollbackFunctions) :
       i < j
       => \A p \in Positions(ForwardCall(rollbackFunctions[i])),
             q \in Positions(ForwardCall(rollbackFunctions[j])) : p < q

\* ------------------------------------------------------------------ mapping names
\* The names and ARNs explored: the non-empty strings over a letter and a
\* digit.
NameStrings == SeqsUpTo({"a", "1"}, MaxNameLen) \ {<<>>}

\* fmt.Sprintf("%d", n) for n >= 0
RECURSIVE Sprintf_d(_)
Sprintf_d(n) ==
    LET digit == <<"0", "1", "2", "3", "4", "5", "6", "7", "8", "9">>
    IN  IF n < 10 THEN <<digit[n + 1]>>
        ELSE Sprintf_d(n \div 10) \o <<digit[(n % 10) + 1]>>

\* A call of EventSourceMapping.export: the mapping, whose EventSourceArn is
\* a literal string, the name of the target function and the literal of the
\* target's ARN expression.
MappingExports ==
    [targetLambdaName : NameStrings,
     targetLambdaArn : {<<>>},
     mapping : [StartingPosition : {<<"LATEST">>},
                EventSourceArn : NameStrings,
                Disabled : {FALSE},
                BatchSize : {1, 11}]]

\* EventSourceMapping.export: hashParts
hashParts(e) ==
    <<e.targetLambdaName, e.mapping.EventSourceArn, e.targetLambdaArn,
      Sprintf_d(e.mapping.BatchSize), e.mapping.StartingPosition>>

\* sha1 as an injective function of the bytes written to it: the digest is
\* identified with those bytes.
sha1Sum(bytes) == <<"sha1", bytes>>

\* EventSourceMapping.export: every part is written to the hash in turn, so
\* that the digest is the one of the parts' concatenation, and the resource
\* name is "LambdaES" followed by the digest.
mappingResourceName(e) ==
    <<"LambdaES", sha1Sum(Flatten(hashParts(e)))>>

\* Two calls of EventSourceMapping.export, observed on their own.
InitMappingNames ==
    /\ noop = FALSE
    /\ lambdaAWSInfos = <<>>
    /\ api = FALSE
    /\ s3Site = FALSE
    /\ workflowHooks = {}
    /\ tempNames = {1}
    /\ Plain
    /\ Start
    /\ declaration \in MappingExports \X MappingExports
    /\ returned = <<>>

\* The next of the two exports names its resource.
ExportMapping ==
    /\ Len(returned) < Len(declaration)
    /\ returned' =
          Append(returned, mappingResourceName(declaration[Len(returned) + 1]))
    /\ UNCHANGED <<inputs, pc, invoked, calls, lambdaIAMRoleNameMap,
                   uploadErrors, rollbackFunctions, tasks, s3Objects,
                   rollbackCalls, cleanups, hookTask, stepErr, next, err, retErr>>
    /\ UNCHANGED <<templateVars, keyVars, runVars, buildVars, declaration>>

SpecMappingNames == InitMappingNames /\ [][ExportMapping]_vars

\* C35: with an injective digest, two event source mappings whose identity
\* tuples (target function name, event source ARN, target ARN, batch size,
\* starting position) differ in a part get different logical names, also
\* when the concatenations of their parts are equal.
C35_DistinctTuplesDistinctNames ==
    Len(returned) = 2 /\ hashParts(declaration[1]) # hashParts(declaration[2])
    => returned[1] # returned[2]

\* ------------------------------------------------------------------ gateway methods
HTTPMethods == {"GET", "POST"}

\* Resource.NewMethod(httpMethod) on a resource with the methods Methods: the
\* methods afterwards, the returned pointer, which is nil (<<>>) or given by
\* the key of the method it points to, and the returned error.
NewMethod(Methods, httpMethod) ==
    IF httpMethod \in DOMAIN Methods
    THEN [Methods |-> Methods, method |-> <<>>,
          err |-> <<"Method ", httpMethod, " (Auth: ", "NONE",
                    ") already defined for resource">>]
    ELSE [Methods |-> (httpMethod :>
                          [authorizationType |-> "NONE",
                           httpMethod |-> httpMethod]) @@ Methods,
          method |-> <<httpMethod>>, err |-> NoErr]

\* Resource.NewAuthorizedMethod(httpMethod, authorizationType): the
\* authorization type is assigned through the returned pointer when NewMethod
\* returned an error, in which case the pointer is nil and the assignment
\* panics; after a successful NewMethod nothing is assigned.
NewAuthorizedMethod(Methods, httpMethod, authorizationType) ==
    LET r == NewMethod(Methods, httpMethod)
    IN  IF r.err # NoErr
        THEN IF r.method = <<>>
             THEN [Methods |-> r.Methods, method |-> <<>>, err |-> r.err,
                   panic |-> TRUE]
             ELSE [Methods |-> [r.Methods EXCEPT
                                   ![r.method[1]].authorizationType =
                                       authorizationType],
                   method |-> r.method, err |-> r.err, panic |-> FALSE]
        ELSE [Methods |-> r.Methods, method |-> r.method, err |-> r.err,
              panic |-> FALSE]

\* A resource as API.NewResource makes it, without methods.
InitMethods ==
    /\ noop = FALSE
    /\ lambdaAWSInfos = <<>>
    /\ api = FALSE
    /\ s3Site = FALSE
    /\ workflowHooks = {}
    /\ tempNames = {1}
    /\ Plain
    /\ Start
    /\ declaration = [Methods |-> <<>>]
    /\ returned = <<>>

\* The program runs on as long as no call has panicked.
Running ==
    /\ Len(returned) < MaxCalls
    /\ \A i \in 1..Len(returned) : ~returned[i].panic

\* What a call leaves behind: its arguments, whether the resource had a
\* method for the verb, the methods before and after it, and its results.
CallRecord(op, httpMethod, authorizationType, r, panic) ==
    [op |-> op, httpMethod |-> httpMethod,
     authorizationType |-> authorizationType,
     before |-> declaration.Methods, after |-> r.Methods,
     method |-> r.method, err |-> r.err, panic |-> panic]

\* The program calls resource.NewMethod(httpMethod).
CallNewMethod ==
    /\ Running
    /\ \E httpMethod \in HTTPMethods :
          LET r == NewMethod(declaration.Methods, httpMethod)
          IN  /\ declaration' = [declaration EXCEPT !.Methods = r.Methods]
              /\ returned' = Append(returned,
                    CallRecord("NewMethod", httpMethod, "NONE", r, FALSE))
    /\ UNCHANGED <<inputs, pc, invoked, calls, lambdaIAMRoleNameMap,
                   uploadErrors, rollbackFunctions, tasks, s3Objects,
                   rollbackCalls, cleanups, hookTask, stepErr, next, err, retErr>>
    /\ UNCHANGED <<templateVars, keyVars, runVars, buildVars>>

\* The program calls resource.NewAuthorizedMethod(httpMethod, authorizationType).
CallNewAuthorizedMethod ==
    /\ Running
    /\ \E httpMethod \in HTTPMethods,
          authorizationType \in {"NONE", "AWS_IAM"} :
          LET r == NewAuthorizedMethod(declaration.Methods, httpMethod,
                                       authorizationType)
          IN  /\ declaration' = [declaration EXCEPT !.Methods = r.Methods]
              /\ returned' = Append(returned,
                    CallRecord("NewAuthorizedMethod", httpMethod,
                               authorizationType, r, r.panic))
    /\ UNCHANGED <<inputs, pc, invoked, calls, lambdaIAMRoleNameMap,
                   uploadErrors, rollbackFunctions, tasks, s3Objects,
                   rollbackCalls, cleanups, hookTask, stepErr, next, err, retErr>>
    /\ UNCHANGED <<templateVars, keyVars, runVars, buildVars>>

NextMethods ==
    \/ CallNewMethod
    \/ CallNewAuthorizedMethod

SpecMethods == InitMethods /\ [][NextMethods]_vars

\* C36: NewAuthorizedMethod on a resource without a method for the verb
\* returns a non-nil method that is registered on the resource and has the
\* given authorization type; on a resource that has the verb it returns an
\* error without panicking and leaves the existing method as it was.
C36_NewAuthorizedMethod ==
    \A i \in 1..Len(returned) :
       returned[i].op = "NewAuthorizedMethod"
       => LET c == returned[i]
          IN  IF c.httpMethod \notin DOMAIN c.before
              THEN /\ ~c.panic
                   /\ c.err = NoErr
                   /\ c.method = <<c.httpMethod>>
                   /\ c.httpMethod \in DOMAIN c.after
                   /\ c.after[c.httpMethod].authorizationType =
                         c.authorizationType
              ELSE /\ ~c.panic
                   /\ c.err # NoErr
                   /\ c.after = c.before

\* ------------------------------------------------------------------ export errors
\* The exports of ensureCloudFormationStack that have returned an error.
FailedExports ==
    {op \in Range(calls) :
        /\ op[1] \in {"export", "api.export", "ServiceDecorator"}
        /\ OpErr(op) \in stepErr}
    \cup (IF Positions(<<"s3Site.export">>) # {} /\ errSiteExport # NoErr
          THEN {<<"s3Site.export">>} ELSE {})

\* C37: every error an export of AssembleGraph returns (function export,
\* gateway export, site export, service decorator) fails the step: the
\* converge call is never made after an export returned an error.
C37_ExportErrorFailsStep ==
    FailedExports # {}
    => /\ pc # "applyCloudFormationOperation"
       /\ Positions(<<"ConvergeStackState">>) = {}
       /\ "Converge" \notin Range(invoked)

\* ------------------------------------------------------------------ upload errors
\* createUploadStep has returned.
UploadReturned == "Upload" \in Range(invoked) /\ pc \notin {"upload", "uploadWait"}

\* The chain went on to ensureCloudFormationStack after the Upload step.
ProceededToAssemble ==
    pc = "ensureCloudFormationStack" \/ "AssembleGraph" \in Range(invoked)

\* C38: the Upload step returns an error when, and only when, one of its
\* upload goroutines failed, however the goroutines' unsynchronized appends
\* to uploadErrors interleave: no failure is lost so that the chain would go
\* on to AssembleGraph.
C38_UploadFailsIffTaskFailed ==
    UploadReturned
    => /\ (\E t \in TaskNames : UploadFailed(t))
          <=> (Halted /\ invoked[Len(invoked)] = "Upload" /\ err # NoErr)
       /\ (\A t \in TaskNames : ~UploadFailed(t)) <=> ProceededToAssemble

\* Both goroutines failed, both read uploadErrors before either wrote it, so
\* that one append was lost, and the step has returned an error.
C38_Witness ==
    /\ UploadReturned
    /\ \A t \in TaskNames : UploadFailed(t)
    /\ Len(uploadErrors) = 1
    /\ Halted
    /\ err # NoErr

\* ------------------------------------------------------------------ dry-run rollback
\* C39: in a dry run the rollback list is empty in every state, so that a
\* rollback of a dry run starts no compensating delete and invokes at most
\* the Rollback hook, once.
C39_DryRunRollbackListEmpty ==
    noop
    => /\ rollbackFunctions = <<>>
       /\ \A t \in TaskNames : tasks[t].tmp = <<>>
       /\ cleanups = <<>>
       /\ Positions(<<"DeleteObject", ZipKey>>) = {}
       /\ Positions(<<"DeleteObject", SiteKey>>) = {}
       /\ Positions(<<"DeleteObject", TemplateKey>>) = {}
       /\ hookTask.count <= 1
       /\ (hookTask.count = 1 => "Rollback" \in workflowHooks)

\* A dry run whose uploads returned success failed afterwards and its
\* rollback has run the Rollback hook and nothing else.
C39_Witness ==
    /\ noop /\ s3Site
    /\ Uploaded("primary") /\ Uploaded("site")
    /\ pc = "done"
    /\ retErr # NoErr
    /\ rollbackCalls = 1
    /\ hookTask.count = 1

\* ------------------------------------------------------------------ termination
\* Calls of Provision with no or one declaration, of a valid or an invalid
\* signature, with or without a site and a Rollback hook, dry run or not.
InitTerminates ==
    /\ noop \in BOOLEAN
    /\ lambdaAWSInfos \in
          {<<>>} \cup
          {<<[name |-> "f1", validSig |-> v, RoleName |-> "r1",
              RoleDefinition |-> 0, customResources |-> <<>>]>> :
              v \in BOOLEAN}
    /\ api = FALSE
    /\ s3Site \in BOOLEAN
    /\ workflowHooks \in {{}, {"Rollback"}}
    /\ tempNames = {1}
    /\ Plain
    /\ Start
    /\ Unobserved

\* Every external call, hook and compensating action returns, and the Go
\* scheduler runs every goroutine that can run: the program takes a step as
\* long as one is possible.
SpecTerminates == InitTerminates /\ [][Next]_vars /\ WF_vars(Next)

\* The step functions the loop of Provision has invoked;
\* applyCloudFormationOperation is called by ensureCloudFormationStack.
StepFunctions == SelectSeq(invoked, LAMBDA s : s # "Converge")

\* No step function is invoked twice, so that at most four are invoked.
Acyclic ==
    /\ Len(StepFunctions) <= 4
    /\ \A i, j \in 1..Len(invoked) : invoked[i] = invoked[j] => i = j

EndedInSuccess == retErr = NoErr /\ rollbackCalls = 0

\* One call of rollback(), which has waited for every goroutine it started,
\* and then the return of the step's error.
EndedInRollback ==
    /\ retErr # NoErr
    /\ retErr = err
    /\ rollbackCalls = 1
    /\ \A i \in 1..Len(cleanups) : cleanups[i].pc = "done"
    /\ hookTask.pc \in {"idle", "done"}

\* A precondition error returned before the first step function.
EndedBeforeFirstStep ==
    /\ retErr # NoErr
    /\ rollbackCalls = 0
    /\ invoked = <<>>

\* C40 as stated: every call of Provision terminates; at most four step
\* functions are invoked, and the run ends either in success or in exactly
\* one completed rollback followed by an error return.
C40_TerminatesInSuccessOrRollback ==
    /\ <>(pc = "done")
    /\ [](Acyclic /\ (pc = "done" => EndedInSuccess \/ EndedInRollback))

\* C40, amended: every call of Provision terminates; at most four step
\* functions are invoked, and the run ends in success, in exactly one
\* completed rollback followed by an error return, or, when a precondition
\* is violated, in an error return before the first step and without
\* rollback.
C40_Terminates ==
    /\ <>(pc = "done")
    /\ [](Acyclic /\ (pc = "done" => \/ EndedInSuccess
                                     \/ EndedInRollback
                                     \/ EndedBeforeFirstStep))

\* A run has invoked the four step functions, its converge call has failed
\* and its rollback, with the hook, has completed.
C40_Witness ==
    /\ pc = "done"
    /\ Len(StepFunctions) = 4
    /\ EndedInRollback
    /\ hookTask.pc = "done"
    /\ Len(cleanups) >= 1

====
